---- MODULE Spec2Model ----
(***************************************************************************)
(* oml-storage: the filesystem backend (StorageDisk) shared by concurrent  *)
(* tasks of a multi-threaded executor.  Every step below is one access to  *)
(* shared state (one filesystem call, one semaphore operation) of the      *)
(* function it is named after, together with the task-local computation    *)
(* that follows it up to the next access.  A task's program counter is the *)
(* stack of the labels still to run: a call of one storage function from   *)
(* another (lock_new -> exists, save -> verify_lock, ...) pushes the       *)
(* callee's labels in front of the caller's continuation.                  *)
(***************************************************************************)
EXTENDS Integers, Sequences, FiniteSets, TLC

\* ---------------------------------------------------------------- bounds
\* The clock (Utc::now) takes the values 0..MaxTime.
MaxTime == 1
\* Payload values are 0..MaxItem; 0 is ITEM::default().
MaxItem == 1
\* scan_ids is called with the offsets 0..MaxStart and the limits 0..MaxLimit.
MaxStart == 4
MaxLimit == 3
\* A caller that follows continuations asks for at most MaxPages pages.
MaxPages == 4
\* update_highest_seen_id is given the sequential ids 0..MaxSeenId.
MaxSeenId == 2
\* The parts of a text id are texts of up to MaxTextLen characters.
MaxTextLen == 2
\* The number of a SequentialId is a u64; here it has U64Bits bits.
U64Bits == 4

\* ------------------------------------------------------------- constants
\* Semaphore::new(1)
\* mutant: a gate of two permits
SemaphorePermits_two == 1 + 1
SemaphorePermits == 1

Tasks == {"t1", "t2"}
Ids == {"1"}
Who == {"a", "b"}
Times == 0..MaxTime
Items == 0..MaxItem

\* ITEM::default()
DefaultItem == 0

\* StorageLock { who, when }
StorageLock == [who : Who, when : Times]
\* the token register of a call that has no token (yet)
NoLock == [who |-> "", when |-> 0]

\* a key under which the table has no item
NoItem == [item |-> FALSE]
\* an attribute that an item does not have
NoAttr == <<>>
\* an item of the table: its attributes "lock" and "data" beside the key
Item(lock, data) == [item |-> TRUE, lock |-> lock, data |-> data]

\* a path at which no file exists
NoFile == <<>>

\* serde_json::to_string_pretty(&lock): the document { "who": .., "when": .. }
lock_to_json(l) == <<"who", l.who, "when", l.when>>
\* serde_json::from_slice::<StorageLock>(..)
lock_from_json(js) == [who |-> js[2], when |-> js[4]]
\* ITEM::serialize / ITEM::deserialize of the payload type
item_serialize(i) == <<"counter", i>>
item_deserialize(b) == b[2]

\* ----------------------------------------------------------------- state
VARIABLES
  lock_files,   \* [Ids -> file content]: <base_path>/<id>.lock
  item_files,   \* [Ids -> file content]: <base_path>/<id>.<extension>
  permits,      \* permits left in lock_semaphore
  now,          \* the clock read by StorageLock::new
  pc,           \* [Tasks -> Seq(label)]: the labels a task has still to run
  frame,        \* [Tasks -> [op, id, who, lock, item, tries]]: the call and its locals
  rv,           \* [Tasks -> value]: what the last finished function returned
  acquired,     \* [Ids -> Nat]: lock records written since the last removal
  grants,       \* [Ids -> -1..]: Success outcomes on the id; -1 once a record of it was removed
  highest_seen_id,  \* the cell of Metadata: NoId or the id last stored in it
  locals,       \* [Tasks -> record]: arguments and locals of all_ids, scan_ids, wipe and id calls
  observed,     \* the ids update_highest_seen_id has been given so far
  table,        \* [Ids -> item]: the DynamoDB table, by the key "id"
  permits2      \* permits left in lock_semaphore of a second StorageDisk on the directory

vars == <<lock_files, item_files, permits, now, pc, frame, rv, acquired, grants,
          highest_seen_id, locals, observed, table, permits2>>

\* ---------------------------------------------------------- return values
NoRv == [kind |-> "none"]
Bool(b) == [kind |-> "bool", b |-> b]
OkUnit == [kind |-> "ok"]
OkItem(i) == [kind |-> "item", item |-> i]
Err(e) == [kind |-> "err", err |-> e]
Success(l, i) == [kind |-> "Success", lock |-> l, item |-> i]
AlreadyLocked(w) == [kind |-> "AlreadyLocked", who |-> w]
AlreadyExists == [kind |-> "AlreadyExists"]
OkId(i) == [kind |-> "id", id |-> i]
\* todo!(): the call panics
Panic == [kind |-> "panic"]
\* a String
OkText(s) == [kind |-> "text", text |-> s]
OkIds(ids) == [kind |-> "ids", ids |-> ids]
\* the ids a caller has collected when it is cut off with a continuation in hand
Unfinished(ids) == [kind |-> "unfinished", ids |-> ids]
OkPage(ids, next) == [kind |-> "page", ids |-> ids, next |-> next]

NoFrame == [op |-> "none", id |-> "1", who |-> "", lock |-> NoLock, item |-> DefaultItem, tries |-> 0]

Ops == {"exists", "load", "save", "lock", "lock_new", "unlock", "force_unlock", "verify_lock"}

\* the labels a call of op starts with
Entry(op) ==
  CASE op = "exists" -> <<"exists_item">>
    [] op = "load" -> <<"load">>
    [] op = "save" -> <<"verify_lock_meta", "save_write">>
    [] op = "lock" -> <<"lock_acquire">>
    [] op = "lock_new" -> <<"lock_new_acquire">>
    [] op = "unlock" -> <<"verify_lock_meta", "unlock_remove">>
    [] op = "force_unlock" -> <<"force_unlock_meta">>
    [] op = "verify_lock" -> <<"verify_lock_meta">>
    [] op = "create" -> <<"create_generate">>
    [] op = "all_ids" -> <<"all_ids">>
    [] op = "scan_ids" -> <<"all_ids", "scan_ids_page">>
    [] op = "paginate" -> <<"all_ids", "scan_ids_page", "paginate_next">>
    [] op = "follow" -> <<"all_ids", "scan_ids_page", "paginate_loop">>
    [] op = "wipe" -> <<"wipe_confirm">>
    [] op = "update_highest_seen_id" -> <<"update_read">>
    [] op = "round_trip" -> <<"to_string", "from_string">>
    [] op = "generate_new" -> <<"generate_new">>

\* Option::None
None == [some |-> FALSE]
Some(v) == [some |-> TRUE, v |-> v]

\* Metadata::default(): highest_seen_id is None
NoId == None

\* a call that has no arguments or locals of the kinds kept in locals
NoLocals ==
  [start |-> None, limit |-> None, confirmation |-> "", ids |-> <<>>, pages |-> 0, id |-> None]

Idle(t) == frame[t].op = "none"
Done(t) == frame[t].op # "none" /\ pc[t] = <<>>
At(t, label) == pc[t] # <<>> /\ Head(pc[t]) = label

\* fs::metadata(path).is_ok()
file_exists(files, id) == files[id] # NoFile

Goto(t, label) == pc' = [pc EXCEPT ![t] = <<label>> \o Tail(@)]
\* the running function returns v to its caller (or, at the bottom, to the task)
Return(t, v) == pc' = [pc EXCEPT ![t] = Tail(@)] /\ rv' = [rv EXCEPT ![t] = v]
\* the running label is replaced by the labels of a nested call and a continuation
CallThen(t, labels) == pc' = [pc EXCEPT ![t] = labels \o Tail(@)]

Init ==
  /\ lock_files = [i \in Ids |-> NoFile]
  /\ item_files = [i \in Ids |-> NoFile]
  /\ permits = SemaphorePermits
  /\ now = 0
  /\ pc = [t \in Tasks |-> <<>>]
  /\ frame = [t \in Tasks |-> NoFrame]
  /\ rv = [t \in Tasks |-> NoRv]
  /\ acquired = [i \in Ids |-> 0]
  /\ grants = [i \in Ids |-> 0]
  /\ highest_seen_id = NoId
  /\ observed = {}
  /\ table = [i \in DOMAIN item_files |-> NoItem]
  /\ permits2 = SemaphorePermits
  /\ locals = [t \in Tasks |-> NoLocals]

\* ------------------------------------------------------------ the caller
\* A task calls one operation of the Storage trait.
Call(t) ==
  /\ Idle(t)
  /\ \E op \in Ops, id \in Ids, who \in Who, l \in StorageLock, i \in Items :
       /\ frame' = [frame EXCEPT ![t] =
            [op |-> op, id |-> id,
             who |-> IF op \in {"lock", "lock_new"} THEN who ELSE "",
             lock |-> IF op \in {"save", "unlock", "verify_lock"} THEN l ELSE NoLock,
             item |-> IF op = "save" THEN i ELSE DefaultItem,
             tries |-> 0]]
       /\ pc' = [pc EXCEPT ![t] = Entry(op)]
  /\ UNCHANGED <<lock_files, item_files, permits, now, rv, acquired, grants>>
  /\ UNCHANGED <<highest_seen_id, locals, observed>>
  /\ UNCHANGED <<table, permits2>>

\* The task takes the result of its call.
Finish(t) ==
  /\ Done(t)
  /\ frame' = [frame EXCEPT ![t] = NoFrame]
  /\ rv' = [rv EXCEPT ![t] = NoRv]
  /\ locals' = [locals EXCEPT ![t] = NoLocals]
  /\ UNCHANGED <<lock_files, item_files, permits, now, pc, acquired, grants>>
  /\ UNCHANGED <<highest_seen_id, observed>>
  /\ UNCHANGED <<table, permits2>>

\* Utc::now() advances.
Tick ==
  /\ now < MaxTime
  /\ now' = now + 1
  /\ UNCHANGED <<lock_files, item_files, permits, pc, frame, rv, acquired, grants>>
  /\ UNCHANGED <<highest_seen_id, locals, observed>>
  /\ UNCHANGED <<table, permits2>>

\* ------------------------------------------------- StorageDisk::create
\* let mut tries = 10
CreateTries == 10

\* ITEM::generate_next_id(None): some id; then self.exists(&id)
create_generate(t) ==
  /\ At(t, "create_generate")
  /\ \E id \in Ids : frame' = [frame EXCEPT ![t].id = id]
  /\ CallThen(t, <<"exists_item", "create_check">>)
  /\ UNCHANGED <<lock_files, item_files, permits, now, rv, acquired, grants>>
  /\ UNCHANGED <<highest_seen_id, locals, observed>>
  /\ UNCHANGED <<table, permits2>>

\* mutant: the answer of self.exists is not used
create_check_any(t) ==
  /\ At(t, "create_check")
  /\ Return(t, OkId(frame[t].id))
  /\ UNCHANGED <<lock_files, item_files, permits, now, frame, acquired, grants>>
  /\ UNCHANGED <<highest_seen_id, locals, observed>>
  /\ UNCHANGED <<table, permits2>>

\* after self.exists(&id): return the id, or count the try and go round again
create_check(t) ==
  /\ At(t, "create_check")
  /\ IF ~rv[t].b
       THEN Return(t, OkId(frame[t].id)) /\ UNCHANGED frame
       ELSE IF frame[t].tries - 1 <= 0
         THEN /\ frame' = [frame EXCEPT ![t].tries = @ - 1]
              /\ Return(t, Panic)
         ELSE /\ frame' = [frame EXCEPT ![t].tries = @ - 1]
              /\ Goto(t, "create_generate")
              /\ UNCHANGED rv
  /\ UNCHANGED <<lock_files, item_files, permits, now, acquired, grants>>
  /\ UNCHANGED <<highest_seen_id, locals, observed>>
  /\ UNCHANGED <<table, permits2>>

\* ------------------------------------------------- StorageDisk::exists
exists_item(t) ==
  /\ At(t, "exists_item")
  /\ IF file_exists(item_files, frame[t].id)
       THEN Return(t, Bool(TRUE))
       ELSE Goto(t, "exists_lock") /\ UNCHANGED rv
  /\ UNCHANGED <<lock_files, item_files, permits, now, frame, acquired, grants>>
  /\ UNCHANGED <<highest_seen_id, locals, observed>>
  /\ UNCHANGED <<table, permits2>>

\* mutant: exists looks at the payload file only
exists_lock_blind(t) ==
  /\ At(t, "exists_lock")
  /\ Return(t, Bool(FALSE))
  /\ UNCHANGED <<lock_files, item_files, permits, now, frame, acquired, grants>>
  /\ UNCHANGED <<highest_seen_id, locals, observed>>
  /\ UNCHANGED <<table, permits2>>

exists_lock(t) ==
  /\ At(t, "exists_lock")
  /\ Return(t, Bool(file_exists(lock_files, frame[t].id)))
  /\ UNCHANGED <<lock_files, item_files, permits, now, frame, acquired, grants>>
  /\ UNCHANGED <<highest_seen_id, locals, observed>>
  /\ UNCHANGED <<table, permits2>>

\* --------------------------------------------------- StorageDisk::load
\* mutant: load refuses an id that has a lock record
load_result_unlocked(id) ==
  IF file_exists(item_files, id) /\ ~file_exists(lock_files, id)
    THEN OkItem(item_deserialize(item_files[id]))
    ELSE Err("NotFound")

\* fs::read of the payload file, then ITEM::deserialize
load_result(id) ==
  IF file_exists(item_files, id)
    THEN OkItem(item_deserialize(item_files[id]))
    ELSE Err("NotFound")

load(t) ==
  /\ At(t, "load")
  /\ Return(t, load_result(frame[t].id))
  /\ UNCHANGED <<lock_files, item_files, permits, now, frame, acquired, grants>>
  /\ UNCHANGED <<highest_seen_id, locals, observed>>
  /\ UNCHANGED <<table, permits2>>

\* ------------------------------------------- StorageDisk::verify_lock
verify_lock_meta(t) ==
  /\ At(t, "verify_lock_meta")
  /\ IF ~file_exists(lock_files, frame[t].id)
       THEN Return(t, Bool(FALSE))
       ELSE Goto(t, "verify_lock_read") /\ UNCHANGED rv
  /\ UNCHANGED <<lock_files, item_files, permits, now, frame, acquired, grants>>
  /\ UNCHANGED <<highest_seen_id, locals, observed>>
  /\ UNCHANGED <<table, permits2>>

\* mutant: only the owner is compared
lock_matches_who(js, l) == lock_from_json(js).who = l.who

\* expected_lock != *lock, on the lock read back from the lockfile
lock_matches(js, l) == lock_from_json(js) = l

verify_lock_read(t) ==
  /\ At(t, "verify_lock_read")
  /\ IF ~file_exists(lock_files, frame[t].id)
       THEN Return(t, Err("Io"))
       ELSE Return(t, Bool(lock_matches(lock_files[frame[t].id], frame[t].lock)))
  /\ UNCHANGED <<lock_files, item_files, permits, now, frame, acquired, grants>>
  /\ UNCHANGED <<highest_seen_id, locals, observed>>
  /\ UNCHANGED <<table, permits2>>

\* --------------------------------------------------- StorageDisk::save
\* mutant: the payload is not written
save_write_lost(t) ==
  /\ At(t, "save_write")
  /\ IF rv[t].kind = "err"
       THEN Return(t, rv[t])
       ELSE IF ~rv[t].b
         THEN Return(t, Err("LockInvalid"))
         ELSE Return(t, OkUnit)
  /\ UNCHANGED <<lock_files, item_files, permits, now, frame, acquired, grants>>
  /\ UNCHANGED <<highest_seen_id, locals, observed>>
  /\ UNCHANGED <<table, permits2>>

\* what save does with the answer of verify_lock
save_write(t) ==
  /\ At(t, "save_write")
  /\ IF rv[t].kind = "err"
       THEN Return(t, rv[t]) /\ UNCHANGED item_files
       ELSE IF ~rv[t].b
         THEN Return(t, Err("LockInvalid")) /\ UNCHANGED item_files
         ELSE /\ item_files' = [item_files EXCEPT ![frame[t].id] = item_serialize(frame[t].item)]
              /\ Return(t, OkUnit)
  /\ UNCHANGED <<lock_files, permits, now, frame, acquired, grants>>
  /\ UNCHANGED <<highest_seen_id, locals, observed>>
  /\ UNCHANGED <<table, permits2>>

\* --------------------------------------------------- StorageDisk::lock
lock_acquire(t) ==
  /\ At(t, "lock_acquire")
  /\ permits > 0
  /\ permits' = permits - 1
  /\ Goto(t, "lock_check")
  /\ UNCHANGED <<lock_files, item_files, now, frame, rv, acquired, grants>>
  /\ UNCHANGED <<highest_seen_id, locals, observed>>
  /\ UNCHANGED <<table, permits2>>

\* mutant: the lockfile is not looked at
lock_check_blind(t) ==
  /\ At(t, "lock_check")
  /\ Goto(t, "lock_write")
  /\ UNCHANGED <<lock_files, item_files, permits, now, frame, rv, acquired, grants>>
  /\ UNCHANGED <<highest_seen_id, locals, observed>>
  /\ UNCHANGED <<table, permits2>>

\* mutant: the refusal of lock keeps the permit
lock_check_leak(t) ==
  /\ At(t, "lock_check")
  /\ IF file_exists(lock_files, frame[t].id)
       THEN /\ Return(t, AlreadyLocked(":TODO:"))
            /\ UNCHANGED permits
       ELSE /\ Goto(t, "lock_write")
            /\ UNCHANGED <<permits, rv>>
  /\ UNCHANGED <<lock_files, item_files, now, frame, acquired, grants>>
  /\ UNCHANGED <<highest_seen_id, locals, observed>>
  /\ UNCHANGED <<table, permits2>>

lock_check(t) ==
  /\ At(t, "lock_check")
  /\ IF file_exists(lock_files, frame[t].id)
       THEN /\ permits' = permits + 1
            /\ Return(t, AlreadyLocked(":TODO:"))
       ELSE /\ Goto(t, "lock_write")
            /\ UNCHANGED <<permits, rv>>
  /\ UNCHANGED <<lock_files, item_files, now, frame, acquired, grants>>
  /\ UNCHANGED <<highest_seen_id, locals, observed>>
  /\ UNCHANGED <<table, permits2>>

\* StorageLock::new(who)
StorageLock_new(who) == [who |-> who, when |-> now]

lock_write(t) ==
  /\ At(t, "lock_write")
  /\ LET lock == StorageLock_new(frame[t].who) IN
       /\ frame' = [frame EXCEPT ![t].lock = lock]
       /\ lock_files' = [lock_files EXCEPT ![frame[t].id] = lock_to_json(lock)]
  /\ acquired' = [acquired EXCEPT ![frame[t].id] = @ + 1]
  /\ Goto(t, "lock_load")
  /\ UNCHANGED <<item_files, permits, now, rv, grants>>
  /\ UNCHANGED <<highest_seen_id, locals, observed>>
  /\ UNCHANGED <<table, permits2>>

\* self.load(id).await.unwrap_or_default()
unwrap_or_default(r) == IF r.kind = "item" THEN r.item ELSE DefaultItem

Granted(id) == [grants EXCEPT ![id] = IF @ < 0 THEN @ ELSE @ + 1]

\* mutant: the payload is not loaded
lock_load_default(t) ==
  /\ At(t, "lock_load")
  /\ frame' = [frame EXCEPT ![t].item = DefaultItem]
  /\ Return(t, Success(frame[t].lock, DefaultItem))
  /\ permits' = permits + 1
  /\ grants' = Granted(frame[t].id)
  /\ UNCHANGED <<lock_files, item_files, now, acquired>>
  /\ UNCHANGED <<highest_seen_id, locals, observed>>
  /\ UNCHANGED <<table, permits2>>

lock_load(t) ==
  /\ At(t, "lock_load")
  /\ LET item == unwrap_or_default(load_result(frame[t].id)) IN
       /\ frame' = [frame EXCEPT ![t].item = item]
       /\ Return(t, Success(frame[t].lock, item))
  /\ permits' = permits + 1
  /\ grants' = Granted(frame[t].id)
  /\ UNCHANGED <<lock_files, item_files, now, acquired>>
  /\ UNCHANGED <<highest_seen_id, locals, observed>>
  /\ UNCHANGED <<table, permits2>>

\* ------------------ StorageDisk::lock of a second instance on the directory
\* A second process has its own StorageDisk and with it its own lock_semaphore;
\* the files are those of the first.
lock_acquire2(t) ==
  /\ At(t, "lock_acquire2")
  /\ permits2 > 0
  /\ permits2' = permits2 - 1
  /\ Goto(t, "lock_check2")
  /\ UNCHANGED <<lock_files, item_files, now, frame, rv, acquired, grants>>
  /\ UNCHANGED <<highest_seen_id, locals, observed>>
  /\ UNCHANGED <<table, permits>>

lock_check2(t) ==
  /\ At(t, "lock_check2")
  /\ IF file_exists(lock_files, frame[t].id)
       THEN /\ permits2' = permits2 + 1
            /\ Return(t, AlreadyLocked(":TODO:"))
       ELSE /\ Goto(t, "lock_write2")
            /\ UNCHANGED <<permits2, rv>>
  /\ UNCHANGED <<lock_files, item_files, now, frame, acquired, grants>>
  /\ UNCHANGED <<highest_seen_id, locals, observed>>
  /\ UNCHANGED <<table, permits>>

\* mutant: the lockfile is written only where there is none
lock_write2_keep(t) ==
  /\ At(t, "lock_write2")
  /\ LET lock == StorageLock_new(frame[t].who) IN
       /\ frame' = [frame EXCEPT ![t].lock = lock]
       /\ lock_files' = [lock_files EXCEPT ![frame[t].id] =
            IF @ = NoFile THEN lock_to_json(lock) ELSE @]
  /\ acquired' = [acquired EXCEPT ![frame[t].id] = @ + 1]
  /\ Goto(t, "lock_load2")
  /\ UNCHANGED <<item_files, permits, now, rv, grants>>
  /\ UNCHANGED <<highest_seen_id, locals, observed>>
  /\ UNCHANGED <<table, permits2>>

lock_write2(t) ==
  /\ At(t, "lock_write2")
  /\ LET lock == StorageLock_new(frame[t].who) IN
       /\ frame' = [frame EXCEPT ![t].lock = lock]
       /\ lock_files' = [lock_files EXCEPT ![frame[t].id] = lock_to_json(lock)]
  /\ acquired' = [acquired EXCEPT ![frame[t].id] = @ + 1]
  /\ Goto(t, "lock_load2")
  /\ UNCHANGED <<item_files, permits, now, rv, grants>>
  /\ UNCHANGED <<highest_seen_id, locals, observed>>
  /\ UNCHANGED <<table, permits2>>

lock_load2(t) ==
  /\ At(t, "lock_load2")
  /\ LET item == unwrap_or_default(load_result(frame[t].id)) IN
       /\ frame' = [frame EXCEPT ![t].item = item]
       /\ Return(t, Success(frame[t].lock, item))
  /\ permits2' = permits2 + 1
  /\ grants' = Granted(frame[t].id)
  /\ UNCHANGED <<lock_files, item_files, now, acquired>>
  /\ UNCHANGED <<highest_seen_id, locals, observed>>
  /\ UNCHANGED <<table, permits>>

\* ----------------------------------------------- StorageDisk::lock_new
\* mutant: lock_new does not wait for the gate
lock_new_acquire_nogate(t) ==
  /\ At(t, "lock_new_acquire")
  /\ permits' = permits - 1
  /\ CallThen(t, <<"exists_item", "lock_new_check">>)
  /\ UNCHANGED <<lock_files, item_files, now, frame, rv, acquired, grants>>
  /\ UNCHANGED <<highest_seen_id, locals, observed>>
  /\ UNCHANGED <<table, permits2>>

lock_new_acquire(t) ==
  /\ At(t, "lock_new_acquire")
  /\ permits > 0
  /\ permits' = permits - 1
  /\ CallThen(t, <<"exists_item", "lock_new_check">>)
  /\ UNCHANGED <<lock_files, item_files, now, frame, rv, acquired, grants>>
  /\ UNCHANGED <<highest_seen_id, locals, observed>>
  /\ UNCHANGED <<table, permits2>>

\* mutant: the answer of self.exists is not used
lock_new_check_lock_only(t) ==
  /\ At(t, "lock_new_check")
  /\ IF file_exists(lock_files, frame[t].id)
       THEN /\ permits' = permits + 1
            /\ Return(t, AlreadyLocked(":TODO:"))
       ELSE /\ Goto(t, "lock_new_write")
            /\ UNCHANGED <<permits, rv>>
  /\ UNCHANGED <<lock_files, item_files, now, frame, acquired, grants>>
  /\ UNCHANGED <<highest_seen_id, locals, observed>>
  /\ UNCHANGED <<table, permits2>>

\* after self.exists(id): the two refusals, or on to writing the lockfile
lock_new_check(t) ==
  /\ At(t, "lock_new_check")
  /\ IF rv[t].b
       THEN /\ permits' = permits + 1
            /\ Return(t, AlreadyExists)
       ELSE IF file_exists(lock_files, frame[t].id)
         THEN /\ permits' = permits + 1
              /\ Return(t, AlreadyLocked(":TODO:"))
         ELSE /\ Goto(t, "lock_new_write")
              /\ UNCHANGED <<permits, rv>>
  /\ UNCHANGED <<lock_files, item_files, now, frame, acquired, grants>>
  /\ UNCHANGED <<highest_seen_id, locals, observed>>
  /\ UNCHANGED <<table, permits2>>

lock_new_write(t) ==
  /\ At(t, "lock_new_write")
  /\ LET lock == StorageLock_new(frame[t].who) IN
       /\ frame' = [frame EXCEPT ![t].lock = lock]
       /\ lock_files' = [lock_files EXCEPT ![frame[t].id] = lock_to_json(lock)]
  /\ acquired' = [acquired EXCEPT ![frame[t].id] = @ + 1]
  /\ Goto(t, "lock_new_check_item")
  /\ UNCHANGED <<item_files, permits, now, rv, grants>>
  /\ UNCHANGED <<highest_seen_id, locals, observed>>
  /\ UNCHANGED <<table, permits2>>

\* mutant: the lock is left in place when the payload turns up
lock_new_check_item_noundo(t) ==
  /\ At(t, "lock_new_check_item")
  /\ IF file_exists(item_files, frame[t].id)
       THEN /\ CallThen(t, <<"lock_new_undone">>)
            /\ UNCHANGED frame
       ELSE /\ frame' = [frame EXCEPT ![t].item = DefaultItem]
            /\ CallThen(t, <<"verify_lock_meta", "save_write", "lock_new_saved">>)
  /\ UNCHANGED <<lock_files, item_files, permits, now, rv, acquired, grants>>
  /\ UNCHANGED <<highest_seen_id, locals, observed>>
  /\ UNCHANGED <<table, permits2>>

\* mutant: the default item is not saved
lock_new_check_item_nosave(t) ==
  /\ At(t, "lock_new_check_item")
  /\ IF file_exists(item_files, frame[t].id)
       THEN /\ CallThen(t, <<"verify_lock_meta", "unlock_remove", "lock_new_undone">>)
            /\ UNCHANGED frame
       ELSE /\ frame' = [frame EXCEPT ![t].item = DefaultItem]
            /\ CallThen(t, <<"lock_new_saved">>)
  /\ UNCHANGED <<lock_files, item_files, permits, now, rv, acquired, grants>>
  /\ UNCHANGED <<highest_seen_id, locals, observed>>
  /\ UNCHANGED <<table, permits2>>

\* the payload file is looked at again: undo by self.unlock, or self.save the default
lock_new_check_item(t) ==
  /\ At(t, "lock_new_check_item")
  /\ IF file_exists(item_files, frame[t].id)
       THEN /\ CallThen(t, <<"verify_lock_meta", "unlock_remove", "lock_new_undone">>)
            /\ UNCHANGED frame
       ELSE /\ frame' = [frame EXCEPT ![t].item = DefaultItem]
            /\ CallThen(t, <<"verify_lock_meta", "save_write", "lock_new_saved">>)
  /\ UNCHANGED <<lock_files, item_files, permits, now, rv, acquired, grants>>
  /\ UNCHANGED <<highest_seen_id, locals, observed>>
  /\ UNCHANGED <<table, permits2>>

\* after self.unlock or self.save: an error leaves by `?`, the permit is dropped on every path
lock_new_finish(t) ==
  /\ pc[t] # <<>>
  /\ Head(pc[t]) \in {"lock_new_undone", "lock_new_saved"}
  /\ permits' = permits + 1
  /\ IF rv[t].kind = "err"
       THEN Return(t, rv[t]) /\ UNCHANGED grants
       ELSE IF Head(pc[t]) = "lock_new_undone"
         THEN Return(t, AlreadyExists) /\ UNCHANGED grants
         ELSE /\ Return(t, Success(frame[t].lock, frame[t].item))
              /\ grants' = Granted(frame[t].id)
  /\ UNCHANGED <<lock_files, item_files, now, frame, acquired>>
  /\ UNCHANGED <<highest_seen_id, locals, observed>>
  /\ UNCHANGED <<table, permits2>>

\* ------------------------------------------------- StorageDisk::unlock
\* mutant: the lockfile is removed whatever verify_lock answered
unlock_remove_unverified(t) ==
  /\ At(t, "unlock_remove")
  /\ IF rv[t].kind = "err"
       THEN Return(t, rv[t]) /\ UNCHANGED <<lock_files, acquired, grants>>
       ELSE IF ~file_exists(lock_files, frame[t].id)
         THEN Return(t, Err("LockInvalid")) /\ UNCHANGED <<lock_files, acquired, grants>>
         ELSE /\ lock_files' = [lock_files EXCEPT ![frame[t].id] = NoFile]
              /\ acquired' = [acquired EXCEPT ![frame[t].id] = 0]
              /\ grants' = [grants EXCEPT ![frame[t].id] = -1]
              /\ Return(t, OkUnit)
  /\ UNCHANGED <<item_files, permits, now, frame>>
  /\ UNCHANGED <<highest_seen_id, locals, observed>>
  /\ UNCHANGED <<table, permits2>>

\* mutant: unlock writes the item of the call to the payload file
unlock_remove_flush(t) ==
  /\ At(t, "unlock_remove")
  /\ IF rv[t].kind = "err"
       THEN Return(t, rv[t]) /\ UNCHANGED <<lock_files, item_files, acquired, grants>>
       ELSE IF ~rv[t].b
         THEN Return(t, Err("LockInvalid")) /\ UNCHANGED <<lock_files, item_files, acquired, grants>>
         ELSE IF ~file_exists(lock_files, frame[t].id)
           THEN Return(t, Err("Io")) /\ UNCHANGED <<lock_files, item_files, acquired, grants>>
           ELSE /\ lock_files' = [lock_files EXCEPT ![frame[t].id] = NoFile]
                /\ item_files' = [item_files EXCEPT ![frame[t].id] = item_serialize(frame[t].item)]
                /\ acquired' = [acquired EXCEPT ![frame[t].id] = 0]
                /\ grants' = [grants EXCEPT ![frame[t].id] = -1]
                /\ Return(t, OkUnit)
  /\ UNCHANGED <<permits, now, frame>>
  /\ UNCHANGED <<highest_seen_id, locals, observed>>
  /\ UNCHANGED <<table, permits2>>

\* what unlock does with the answer of verify_lock
unlock_remove(t) ==
  /\ At(t, "unlock_remove")
  /\ IF rv[t].kind = "err"
       THEN Return(t, rv[t]) /\ UNCHANGED <<lock_files, acquired, grants>>
       ELSE IF ~rv[t].b
         THEN Return(t, Err("LockInvalid")) /\ UNCHANGED <<lock_files, acquired, grants>>
         ELSE IF ~file_exists(lock_files, frame[t].id)
           THEN Return(t, Err("Io")) /\ UNCHANGED <<lock_files, acquired, grants>>
           ELSE /\ lock_files' = [lock_files EXCEPT ![frame[t].id] = NoFile]
                /\ acquired' = [acquired EXCEPT ![frame[t].id] = 0]
                /\ grants' = [grants EXCEPT ![frame[t].id] = -1]
                /\ Return(t, OkUnit)
  /\ UNCHANGED <<item_files, permits, now, frame>>
  /\ UNCHANGED <<highest_seen_id, locals, observed>>
  /\ UNCHANGED <<table, permits2>>

\* ------------------------------------------- StorageDisk::force_unlock
\* mutant: force_unlock answers Ok when there is no lockfile
force_unlock_meta_idempotent(t) ==
  /\ At(t, "force_unlock_meta")
  /\ IF ~file_exists(lock_files, frame[t].id)
       THEN Return(t, OkUnit)
       ELSE Goto(t, "force_unlock_remove") /\ UNCHANGED rv
  /\ UNCHANGED <<lock_files, item_files, permits, now, frame, acquired, grants>>
  /\ UNCHANGED <<highest_seen_id, locals, observed>>
  /\ UNCHANGED <<table, permits2>>

force_unlock_meta(t) ==
  /\ At(t, "force_unlock_meta")
  /\ IF ~file_exists(lock_files, frame[t].id)
       THEN Return(t, Err("NotLocked"))
       ELSE Goto(t, "force_unlock_remove") /\ UNCHANGED rv
  /\ UNCHANGED <<lock_files, item_files, permits, now, frame, acquired, grants>>
  /\ UNCHANGED <<highest_seen_id, locals, observed>>
  /\ UNCHANGED <<table, permits2>>

\* mutant: force_unlock removes the payload file along with the lockfile
force_unlock_remove_item(t) ==
  /\ At(t, "force_unlock_remove")
  /\ IF ~file_exists(lock_files, frame[t].id)
       THEN Return(t, Err("Io")) /\ UNCHANGED <<lock_files, item_files, acquired, grants>>
       ELSE /\ lock_files' = [lock_files EXCEPT ![frame[t].id] = NoFile]
            /\ item_files' = [item_files EXCEPT ![frame[t].id] = NoFile]
            /\ acquired' = [acquired EXCEPT ![frame[t].id] = 0]
            /\ grants' = [grants EXCEPT ![frame[t].id] = -1]
            /\ Return(t, OkUnit)
  /\ UNCHANGED <<permits, now, frame>>
  /\ UNCHANGED <<highest_seen_id, locals, observed>>
  /\ UNCHANGED <<table, permits2>>

\* mutant: force_unlock answers Ok and leaves the lockfile
force_unlock_remove_keep(t) ==
  /\ At(t, "force_unlock_remove")
  /\ Return(t, OkUnit)
  /\ UNCHANGED <<lock_files, item_files, permits, now, frame, acquired, grants>>
  /\ UNCHANGED <<highest_seen_id, locals, observed>>
  /\ UNCHANGED <<table, permits2>>

force_unlock_remove(t) ==
  /\ At(t, "force_unlock_remove")
  /\ IF ~file_exists(lock_files, frame[t].id)
       THEN Return(t, Err("Io")) /\ UNCHANGED <<lock_files, acquired, grants>>
       ELSE /\ lock_files' = [lock_files EXCEPT ![frame[t].id] = NoFile]
            /\ acquired' = [acquired EXCEPT ![frame[t].id] = 0]
            /\ grants' = [grants EXCEPT ![frame[t].id] = -1]
            /\ Return(t, OkUnit)
  /\ UNCHANGED <<item_files, permits, now, frame>>
  /\ UNCHANGED <<highest_seen_id, locals, observed>>
  /\ UNCHANGED <<table, permits2>>

\* ------------------------------------------------------ texts of numbers
Digits == <<"0", "1", "2", "3", "4", "5", "6", "7", "8", "9">>

\* format!("{n}") of an unsigned number: its decimal digits
RECURSIVE format_usize(_)
format_usize(n) ==
  IF n < 10 THEN <<Digits[n + 1]>>
            ELSE format_usize(n \div 10) \o <<Digits[(n % 10) + 1]>>

IsDigits(s) == s # <<>> /\ \A k \in 1..Len(s) : \E d \in 1..10 : Digits[d] = s[k]
DigitValue(c) == CHOOSE d \in 0..9 : Digits[d + 1] = c

RECURSIVE digits_value(_)
digits_value(s) ==
  IF s = <<>> THEN 0
              ELSE 10 * digits_value(SubSeq(s, 1, Len(s) - 1)) + DigitValue(s[Len(s)])

\* s.parse::<usize>(): the number, or None for a text that is not one
parse_usize(s) == IF IsDigits(s) THEN Some(digits_value(s)) ELSE None

Min(a, b) == IF a <= b THEN a ELSE b

\* ------------------------------------------------ StorageDisk::all_ids
\* the store of the enumeration checks holds up to three items
ScanIds == {"1", "2", "3"}
\* a directory that may also hold files of the stem "x", which is not an id
JunkIds == ScanIds \cup {"x"}
\* fs::read_dir yields the entries in an order the filesystem chooses; it is
\* the same at every listing of the directory
ReadDirOrder == <<"1", "x", "2", "3">>
\* the extension of payload files, and that of lockfiles
Extension == "test_item"
LockExtension == "lock"

\* file_path(id) / lock_path(id): the file name is the id with the extension set
file_path(id) == <<id, Extension>>
lock_path(id) == <<id, LockExtension>>

\* the entries of fs::read_dir(&self.base_path), in its order
RECURSIVE read_dir(_)
read_dir(order) ==
  IF order = <<>> THEN <<>>
  ELSE LET id == Head(order) IN
       (IF id \in DOMAIN lock_files /\ file_exists(lock_files, id) THEN <<lock_path(id)>> ELSE <<>>)
       \o (IF id \in DOMAIN item_files /\ file_exists(item_files, id) THEN <<file_path(id)>> ELSE <<>>)
       \o read_dir(Tail(order))

\* f.strip_suffix(&extension): the rest of the name, or None
strip_suffix(f, ext) == IF f[2] = ext THEN Some(f[1]) ELSE None
\* ITEM::make_id(id) of an item whose ids are numbers: id.parse(), which
\* fails on a text that is not a number
make_id(text) == IF IsDigits(<<text>>) THEN OkId(text) ELSE Err("make_id")

\* the loop of all_ids over the entries: the ids of the names with the extension
RECURSIVE all_ids_of(_)
all_ids_of(entries) ==
  IF entries = <<>> THEN <<>>
  ELSE LET id == strip_suffix(Head(entries), Extension) IN
       (IF id.some /\ make_id(id.v).kind = "id" THEN <<make_id(id.v).id>> ELSE <<>>)
         \o all_ids_of(Tail(entries))

\* ITEM::make_id(id)?: does the loop leave all_ids with an error?
all_ids_fails(entries) ==
  \E k \in 1..Len(entries) :
    LET id == strip_suffix(entries[k], Extension) IN id.some /\ make_id(id.v).kind = "err"

all_ids_result == all_ids_of(read_dir(ReadDirOrder))

all_ids(t) ==
  /\ At(t, "all_ids")
  /\ Return(t, IF all_ids_fails(read_dir(ReadDirOrder)) THEN Err("make_id")
                                                       ELSE OkIds(all_ids_result))
  /\ UNCHANGED <<lock_files, item_files, permits, now, frame, acquired, grants>>
  /\ UNCHANGED <<highest_seen_id, locals, observed>>
  /\ UNCHANGED <<table, permits2>>

\* ----------------------------------------------- StorageDisk::scan_ids
\* what scan_ids makes of the ids all_ids returned
scan_ids_result(all, start, limit) ==
  LET parsed == IF start.some THEN parse_usize(start.v) ELSE None IN
  IF start.some /\ ~parsed.some THEN Err("Parse")
  ELSE LET skip_count == IF start.some THEN Min(parsed.v, Len(all)) ELSE 0
           rest == SubSeq(all, skip_count + 1, Len(all))
           page == IF limit.some THEN SubSeq(rest, 1, Min(limit.v, Len(rest))) ELSE rest
           scan_pos == skip_count + Len(page)
       IN OkPage(page, IF scan_pos <= Len(page) THEN Some(format_usize(scan_pos)) ELSE None)

scan_ids_page(t) ==
  /\ At(t, "scan_ids_page")
  /\ Return(t, IF rv[t].kind = "err" THEN rv[t]
               ELSE scan_ids_result(rv[t].ids, locals[t].start, locals[t].limit))
  /\ UNCHANGED <<lock_files, item_files, permits, now, frame, acquired, grants>>
  /\ UNCHANGED <<highest_seen_id, locals, observed>>
  /\ UNCHANGED <<table, permits2>>

\* a caller that follows the continuations: it keeps the ids of the page and
\* asks for the next page until the continuation is absent; after MaxPages
\* pages that all came with a continuation it is cut off
paginate_next(t) ==
  /\ At(t, "paginate_next")
  /\ IF rv[t].kind = "err"
       THEN Return(t, rv[t]) /\ UNCHANGED locals
       ELSE IF ~rv[t].next.some
         THEN /\ locals' = [locals EXCEPT ![t].ids = @ \o rv[t].ids, ![t].pages = @ + 1]
              /\ Return(t, OkIds(locals[t].ids \o rv[t].ids))
         ELSE IF locals[t].pages + 1 >= MaxPages
           THEN /\ locals' = [locals EXCEPT ![t].ids = @ \o rv[t].ids, ![t].pages = @ + 1]
                /\ Return(t, Unfinished(locals[t].ids \o rv[t].ids))
           ELSE /\ locals' = [locals EXCEPT ![t].ids = @ \o rv[t].ids, ![t].pages = @ + 1,
                                            ![t].start = rv[t].next]
                /\ CallThen(t, <<"all_ids", "scan_ids_page", "paginate_next">>)
                /\ UNCHANGED rv
  /\ UNCHANGED <<lock_files, item_files, permits, now, frame, acquired, grants>>
  /\ UNCHANGED <<highest_seen_id, observed>>
  /\ UNCHANGED <<table, permits2>>

\* the same caller with no bound on its pages: it calls scan_ids with each
\* continuation it is handed until one is absent
paginate_loop(t) ==
  /\ At(t, "paginate_loop")
  /\ IF rv[t].kind = "err"
       THEN Return(t, rv[t]) /\ UNCHANGED locals
       ELSE IF ~rv[t].next.some
         THEN /\ locals' = [locals EXCEPT ![t].ids = @ \o rv[t].ids]
              /\ Return(t, OkIds(locals[t].ids \o rv[t].ids))
         ELSE /\ locals' = [locals EXCEPT ![t].ids = @ \o rv[t].ids, ![t].start = rv[t].next]
              /\ CallThen(t, <<"all_ids", "scan_ids_page", "paginate_loop">>)
              /\ UNCHANGED rv
  /\ UNCHANGED <<lock_files, item_files, permits, now, frame, acquired, grants>>
  /\ UNCHANGED <<highest_seen_id, observed>>
  /\ UNCHANGED <<table, permits2>>

\* --------------------------------------------------- StorageDisk::wipe
WipePhrase == "Yes, I know what I am doing!"

\* mutant: the confirmation is not looked at
wipe_confirm_any(t) ==
  /\ At(t, "wipe_confirm")
  /\ Goto(t, "wipe_acquire")
  /\ UNCHANGED <<lock_files, item_files, permits, now, frame, rv, acquired, grants>>
  /\ UNCHANGED <<highest_seen_id, locals, observed>>
  /\ UNCHANGED <<table, permits2>>

wipe_confirm(t) ==
  /\ At(t, "wipe_confirm")
  /\ IF locals[t].confirmation # WipePhrase
       THEN Return(t, Err("Unconfirmed"))
       ELSE Goto(t, "wipe_acquire") /\ UNCHANGED rv
  /\ UNCHANGED <<lock_files, item_files, permits, now, frame, acquired, grants>>
  /\ UNCHANGED <<highest_seen_id, locals, observed>>
  /\ UNCHANGED <<table, permits2>>

wipe_acquire(t) ==
  /\ At(t, "wipe_acquire")
  /\ permits > 0
  /\ permits' = permits - 1
  /\ CallThen(t, <<"all_ids", "wipe_ids">>)
  /\ UNCHANGED <<lock_files, item_files, now, frame, rv, acquired, grants>>
  /\ UNCHANGED <<highest_seen_id, locals, observed>>
  /\ UNCHANGED <<table, permits2>>

\* for id in ids: the next id, or the end of wipe (the permit is dropped)
wipe_ids(t) ==
  /\ At(t, "wipe_ids")
  /\ LET ids == IF rv[t].kind = "ids" THEN rv[t].ids ELSE locals[t].ids IN
       IF rv[t].kind = "err"
         THEN /\ permits' = permits + 1
              /\ Return(t, rv[t])
              /\ UNCHANGED locals
       ELSE IF ids = <<>>
         THEN /\ permits' = permits + 1
              /\ Return(t, OkUnit)
              /\ UNCHANGED locals
         ELSE /\ locals' = [locals EXCEPT ![t].ids = ids]
              /\ rv' = [rv EXCEPT ![t] = NoRv]
              /\ Goto(t, "wipe_remove_lock")
              /\ UNCHANGED permits
  /\ UNCHANGED <<lock_files, item_files, now, frame, acquired, grants>>
  /\ UNCHANGED <<highest_seen_id, observed>>
  /\ UNCHANGED <<table, permits2>>

\* the lockfile of the id is removed if there is one
wipe_remove_lock(t) ==
  /\ At(t, "wipe_remove_lock")
  /\ LET id == Head(locals[t].ids) IN
       IF file_exists(lock_files, id)
         THEN /\ lock_files' = [lock_files EXCEPT ![id] = NoFile]
              /\ acquired' = [acquired EXCEPT ![id] = 0]
              /\ grants' = [grants EXCEPT ![id] = -1]
         ELSE UNCHANGED <<lock_files, acquired, grants>>
  /\ Goto(t, "wipe_remove_item")
  /\ UNCHANGED <<item_files, permits, now, frame, rv>>
  /\ UNCHANGED <<highest_seen_id, locals, observed>>
  /\ UNCHANGED <<table, permits2>>

\* the payload file of the id is removed if there is one
wipe_remove_item(t) ==
  /\ At(t, "wipe_remove_item")
  /\ LET id == Head(locals[t].ids) IN
       IF file_exists(item_files, id)
         THEN item_files' = [item_files EXCEPT ![id] = NoFile]
         ELSE UNCHANGED item_files
  /\ locals' = [locals EXCEPT ![t].ids = Tail(@)]
  /\ Goto(t, "wipe_ids")
  /\ UNCHANGED <<lock_files, permits, now, frame, rv, acquired, grants>>
  /\ UNCHANGED <<highest_seen_id, observed>>
  /\ UNCHANGED <<table, permits2>>

\* -------------------------------- Metadata::update_highest_seen_id
\* The cell exists in builds with the feature "metadata"; without it
\* StorageDisk::update_highest_seen_id is empty.  The storage operations above
\* are those of a build without the feature and leave the cell alone; the
\* update itself is modelled here, as the function every operation calls.
\* the ids the cell is updated with: SequentialId(0) is ID::default(), which
\* all_ids passes for an empty directory; the order is that of the numbers
SeenIds == 0..MaxSeenId

\* under the read guard: is the id higher than the one in the cell? If not the
\* function ends; if so the read guard is dropped
update_read(t) ==
  /\ At(t, "update_read")
  /\ LET id == locals[t].id.v
         higher == IF highest_seen_id.some THEN id > highest_seen_id.v ELSE TRUE
     IN /\ observed' = observed \cup {id}
        /\ IF higher THEN Goto(t, "update_write") /\ UNCHANGED rv
                     ELSE Return(t, OkUnit)
  /\ UNCHANGED <<lock_files, item_files, permits, now, frame, acquired, grants>>
  /\ UNCHANGED <<highest_seen_id, locals>>
  /\ UNCHANGED <<table, permits2>>

\* under the write guard: the id is stored
update_write(t) ==
  /\ At(t, "update_write")
  /\ highest_seen_id' = Some(locals[t].id.v)
  /\ Return(t, OkUnit)
  /\ UNCHANGED <<lock_files, item_files, permits, now, frame, acquired, grants>>
  /\ UNCHANGED <<locals, observed>>
  /\ UNCHANGED <<table, permits2>>

\* ------------------------------- StorageDisk::file_path / lock_path
\* the ids of the path checks and their text forms (format!("{id}")), one
\* character a piece
PathText ==
  "a" :> <<"a">> @@ "b" :> <<"b">> @@ "a.b" :> <<"a", ".", "b">> @@ "a.c" :> <<"a", ".", "c">>
PathIds == DOMAIN PathText

\* the position of the last "." of a file name, 0 when it has none
LastDot(file) ==
  IF \A k \in 1..Len(file) : file[k] # "." THEN 0
  ELSE CHOOSE k \in 1..Len(file) : file[k] = "." /\ \A j \in (k + 1)..Len(file) : file[j] # "."

\* Path::file_stem: the name up to its last ".", the whole name when it has
\* no "." or only a leading one
file_stem(file) ==
  IF file = <<".", ".">> \/ LastDot(file) <= 1 THEN file
  ELSE SubSeq(file, 1, LastDot(file) - 1)

\* PathBuf::set_extension: the name is cut after its stem, then "." and the
\* extension are added
set_extension(file, extension) == <<file_stem(file), extension>>

\* the name of a text
text_name(s) == CHOOSE n \in PathIds : PathText[n] = s

\* file_path(id) / lock_path(id) of an id of any text; file_path and
\* lock_path above are these for an id that has no "."
file_path_of(id) == set_extension(PathText[id], Extension)
lock_path_of(id) == set_extension(PathText[id], LockExtension)

\* the files of one extension are told apart by the stem of their name: the
\* payload file and the lockfile of an id
path_stem(id) == text_name(file_path_of(id)[1])
lock_stem(id) == text_name(lock_path_of(id)[1])
PathStems == {path_stem(i) : i \in PathIds} \cup {lock_stem(i) : i \in PathIds}

\* -------------------- the operations in a build with the feature "metadata"
\* the number of an id, and that of ITEM::ID::default()
id_value(id) == digits_value(<<id>>)
DefaultIdValue == 0

\* let mut highest_id = ITEM::ID::default(); if id > highest_id { highest_id = id }
RECURSIVE highest_id_of(_)
highest_id_of(ids) ==
  IF ids = <<>> THEN DefaultIdValue
  ELSE LET rest == highest_id_of(SubSeq(ids, 1, Len(ids) - 1))
           id == id_value(ids[Len(ids)])
       IN IF id > rest THEN id ELSE rest

\* the loop of all_ids, then on to self.update_highest_seen_id(&highest_id)
all_ids_list(t) ==
  /\ At(t, "all_ids_list")
  /\ IF all_ids_fails(read_dir(ReadDirOrder))
       THEN /\ pc' = [pc EXCEPT ![t] = Tail(Tail(Tail(@)))]
            /\ rv' = [rv EXCEPT ![t] = Err("make_id")]
            /\ UNCHANGED locals
       ELSE /\ locals' = [locals EXCEPT ![t].ids = all_ids_result,
                                        ![t].id = Some(highest_id_of(all_ids_result))]
            /\ pc' = [pc EXCEPT ![t] = Tail(@)]
            /\ UNCHANGED rv
  /\ UNCHANGED <<lock_files, item_files, permits, now, frame, acquired, grants>>
  /\ UNCHANGED <<highest_seen_id, observed>>
  /\ UNCHANGED <<table, permits2>>

\* Ok(ids)
all_ids_return(t) ==
  /\ At(t, "all_ids_return")
  /\ Return(t, OkIds(locals[t].ids))
  /\ UNCHANGED <<lock_files, item_files, permits, now, frame, acquired, grants>>
  /\ UNCHANGED <<highest_seen_id, locals, observed>>
  /\ UNCHANGED <<table, permits2>>

\* exists has found a file of the id: self.update_highest_seen_id(&id); or none
exists_seen(t) ==
  /\ At(t, "exists_seen")
  /\ IF rv[t].b
       THEN /\ locals' = [locals EXCEPT ![t].id = Some(id_value(frame[t].id))]
            /\ CallThen(t, <<"update_read", "exists_return">>)
            /\ UNCHANGED rv
       ELSE /\ Return(t, rv[t])
            /\ UNCHANGED locals
  /\ UNCHANGED <<lock_files, item_files, permits, now, frame, acquired, grants>>
  /\ UNCHANGED <<highest_seen_id, observed>>
  /\ UNCHANGED <<table, permits2>>

\* Ok(true)
exists_return(t) ==
  /\ At(t, "exists_return")
  /\ Return(t, Bool(TRUE))
  /\ UNCHANGED <<lock_files, item_files, permits, now, frame, acquired, grants>>
  /\ UNCHANGED <<highest_seen_id, locals, observed>>
  /\ UNCHANGED <<table, permits2>>

\* ------------------------------------------------------------ StorageId
\* a text is a sequence of characters; a piece that is not ":" stands for
\* characters that are not colons
Chars == {"a", ":"}
Texts == UNION {[1..k -> Chars] : k \in 0..MaxTextLen}
NonEmptyTexts == Texts \ {<<>>}

U64Max == 2^U64Bits - 1
U64 == 0..U64Max

Variants == {"Random", "Sequential", "External", "SimpleExternal"}
RandomId(s) == [variant |-> "Random", s |-> s]
SequentialId(n) == [variant |-> "Sequential", n |-> n]
ExternalId(prefix, id) == [variant |-> "External", prefix |-> prefix, id |-> id]
SimpleExternalId(id) == [variant |-> "SimpleExternal", id |-> id]

\* impl Default for ExternalId / SimpleExternalId
ExternalIdDefault == ExternalId(<<"unknown">>, <<"default">>)
SimpleExternalIdDefault == SimpleExternalId(<<"default">>)

\* impl fmt::Display: the text form of an id
to_string_of(id) ==
  CASE id.variant = "Random" -> id.s
    [] id.variant = "Sequential" -> format_usize(id.n)
    [] id.variant = "External" -> id.prefix \o <<":">> \o id.id
    [] id.variant = "SimpleExternal" -> id.id

\* s.split_once(c): the texts before and after the first c, or None
split_once(s, c) ==
  IF \A k \in 1..Len(s) : s[k] # c THEN None
  ELSE LET k == CHOOSE j \in 1..Len(s) : s[j] = c /\ \A h \in 1..(j - 1) : s[h] # c
       IN Some(<<SubSeq(s, 1, k - 1), SubSeq(s, k + 1, Len(s))>>)

\* u64::from_str(s): the number, or None for a text that is not a u64
parse_u64(s) ==
  LET n == parse_usize(s) IN IF n.some /\ n.v <= U64Max THEN n ELSE None

\* StorageId::from_string of the variant
from_string_of(variant, s) ==
  CASE variant = "Random" -> OkId(RandomId(s))
    [] variant = "Sequential" ->
         LET num == parse_u64(s) IN
         IF num.some THEN OkId(SequentialId(num.v)) ELSE Err("Invalid sequential ID format")
    [] variant = "External" ->
         LET parts == split_once(s, ":") IN
         IF ~parts.some THEN Err("Invalid external ID format")
         ELSE IF parts.v[1] = <<>> \/ parts.v[2] = <<>> THEN Err("Invalid external ID")
         ELSE OkId(ExternalId(parts.v[1], parts.v[2]))
    [] variant = "SimpleExternal" ->
         IF s = <<>> THEN Err("Invalid simple external ID") ELSE OkId(SimpleExternalId(s))

\* SequentialId::generate_new(previous): prev.0 + 1 overflows at the highest
\* u64, where a build with overflow checks panics and one without wraps
generate_new_of(previous) ==
  IF ~previous.some THEN {OkId(SequentialId(1))}
  ELSE IF previous.v.n + 1 > U64Max
         THEN {Panic, OkId(SequentialId((previous.v.n + 1) % (2^U64Bits)))}
         ELSE {OkId(SequentialId(previous.v.n + 1))}

\* the texts from_string is tried on
ParseInputs(variant) ==
  IF variant = "Sequential"
    THEN {format_usize(n) : n \in 0..(U64Max + 1)} \cup {<<"0", "1">>, <<"a">>, <<>>}
    ELSE Texts \cup {<<"a", ":", "a">>, <<"a", ":", ":">>, <<"a", ":", "a", ":">>}

\* the ids made by the constructors from parts that are valid
ConstructedIds ==
  {RandomId(s) : s \in Texts} \cup {SequentialId(n) : n \in U64}
    \cup {ExternalId(p, i) : p \in NonEmptyTexts, i \in NonEmptyTexts}
    \cup {SimpleExternalId(i) : i \in NonEmptyTexts}
\* the ids returned by a successful from_string
ParsedIds ==
  UNION {{from_string_of(v, s).id : s \in {x \in ParseInputs(v) : from_string_of(v, x).kind = "id"}}
           : v \in Variants}
\* the ids returned by generate_new
GeneratedIds ==
  {ExternalIdDefault, SimpleExternalIdDefault}
    \cup {r.id : r \in {x \in UNION {generate_new_of(p) : p \in {None} \cup {Some(SequentialId(n)) : n \in U64}}
                          : x.kind = "id"}}
ValidIds == ConstructedIds \cup ParsedIds \cup GeneratedIds

\* id.to_string()
to_string(t) ==
  /\ At(t, "to_string")
  /\ Return(t, OkText(to_string_of(locals[t].id.v)))
  /\ UNCHANGED <<lock_files, item_files, permits, now, frame, acquired, grants>>
  /\ UNCHANGED <<highest_seen_id, locals, observed>>
  /\ UNCHANGED <<table, permits2>>

\* ID::from_string(&text)
from_string(t) ==
  /\ At(t, "from_string")
  /\ Return(t, from_string_of(locals[t].id.v.variant, rv[t].text))
  /\ UNCHANGED <<lock_files, item_files, permits, now, frame, acquired, grants>>
  /\ UNCHANGED <<highest_seen_id, locals, observed>>
  /\ UNCHANGED <<table, permits2>>

generate_new(t) ==
  /\ At(t, "generate_new")
  /\ \E r \in generate_new_of(locals[t].id) : Return(t, r)
  /\ UNCHANGED <<lock_files, item_files, permits, now, frame, acquired, grants>>
  /\ UNCHANGED <<highest_seen_id, locals, observed>>
  /\ UNCHANGED <<table, permits2>>

\* ------------------------------------------------------ StorageDynamoDb
\* Each request is one UpdateItem or GetItem, which the table serves atomically.
HasLock(id) == table[id].item /\ table[id].lock # NoAttr
\* the condition "#Lock = :lock" on the item under the key
LockIs(id, l) == HasLock(id) /\ table[id].lock = lock_to_json(l)

\* let lock = StorageLock::new(who), before the request is sent
dyn_lock(t) ==
  /\ At(t, "dyn_lock")
  /\ frame' = [frame EXCEPT ![t].lock = StorageLock_new(frame[t].who)]
  /\ Goto(t, "dyn_lock_update")
  /\ UNCHANGED <<lock_files, item_files, permits, now, rv, acquired, grants>>
  /\ UNCHANGED <<highest_seen_id, locals, observed>>
  /\ UNCHANGED <<table, permits2>>

\* mutant: SET #Lock without the condition
dyn_lock_update_unconditional(t) ==
  /\ At(t, "dyn_lock_update")
  /\ LET id == frame[t].id
         old == table[id]
         data == IF old.item THEN old.data ELSE NoAttr
         item == IF data # NoAttr THEN item_deserialize(data) ELSE DefaultItem
     IN /\ table' = [table EXCEPT ![id] = Item(lock_to_json(frame[t].lock), data)]
        /\ frame' = [frame EXCEPT ![t].item = item]
        /\ Return(t, Success(frame[t].lock, item))
  /\ UNCHANGED <<lock_files, item_files, permits, now, acquired, grants>>
  /\ UNCHANGED <<highest_seen_id, locals, observed>>
  /\ UNCHANGED permits2

\* UpdateItem SET #Lock = :lock if attribute_not_exists(#Lock), returning the
\* old attributes; it makes the item if there is none
dyn_lock_update(t) ==
  /\ At(t, "dyn_lock_update")
  /\ LET id == frame[t].id
         old == table[id]
         data == IF old.item THEN old.data ELSE NoAttr
         item == IF data # NoAttr THEN item_deserialize(data) ELSE DefaultItem
     IN IF HasLock(id)
          THEN /\ Return(t, AlreadyLocked(":TODO:"))
               /\ UNCHANGED <<table, frame>>
          ELSE /\ table' = [table EXCEPT ![id] = Item(lock_to_json(frame[t].lock), data)]
               /\ frame' = [frame EXCEPT ![t].item = item]
               /\ Return(t, Success(frame[t].lock, item))
  /\ UNCHANGED <<lock_files, item_files, permits, now, acquired, grants>>
  /\ UNCHANGED <<highest_seen_id, locals, observed>>
  /\ UNCHANGED permits2

\* UpdateItem SET #Data = :data if #Lock = :lock
dyn_save(t) ==
  /\ At(t, "dyn_save")
  /\ IF LockIs(frame[t].id, frame[t].lock)
       THEN /\ table' = [table EXCEPT ![frame[t].id].data = item_serialize(frame[t].item)]
            /\ Return(t, OkUnit)
       ELSE /\ Return(t, Err("Lock invalid!"))
            /\ UNCHANGED table
  /\ UNCHANGED <<lock_files, item_files, permits, now, frame, acquired, grants>>
  /\ UNCHANGED <<highest_seen_id, locals, observed>>
  /\ UNCHANGED permits2

\* UpdateItem REMOVE #Lock if #Lock = :lock
dyn_unlock(t) ==
  /\ At(t, "dyn_unlock")
  /\ IF LockIs(frame[t].id, frame[t].lock)
       THEN /\ table' = [table EXCEPT ![frame[t].id].lock = NoAttr]
            /\ Return(t, OkUnit)
       ELSE /\ Return(t, Err("Lock invalid!"))
            /\ UNCHANGED table
  /\ UNCHANGED <<lock_files, item_files, permits, now, frame, acquired, grants>>
  /\ UNCHANGED <<highest_seen_id, locals, observed>>
  /\ UNCHANGED permits2

\* UpdateItem REMOVE #Lock, without a condition: it succeeds whether or not
\* there is a lock; under a key that has no item the table either stays as it
\* is or gets an item of the key alone
dyn_force_unlock(t) ==
  /\ At(t, "dyn_force_unlock")
  /\ IF table[frame[t].id].item
       THEN table' = [table EXCEPT ![frame[t].id].lock = NoAttr]
       ELSE \/ table' = table
            \/ table' = [table EXCEPT ![frame[t].id] = Item(NoAttr, NoAttr)]
  /\ Return(t, OkUnit)
  /\ UNCHANGED <<lock_files, item_files, permits, now, frame, acquired, grants>>
  /\ UNCHANGED <<highest_seen_id, locals, observed>>
  /\ UNCHANGED permits2

\* GetItem of the key: is there an item?
dyn_exists(t) ==
  /\ At(t, "dyn_exists")
  /\ Return(t, Bool(table[frame[t].id].item))
  /\ UNCHANGED <<lock_files, item_files, permits, now, frame, acquired, grants>>
  /\ UNCHANGED <<highest_seen_id, locals, observed>>
  /\ UNCHANGED <<table, permits2>>

\* what StorageDynamoDb::verify_lock(id, l) answers when it runs in this state
dyn_verify_lock_result(id, l) == HasLock(id) /\ lock_from_json(table[id].lock) = l

\* GetItem of the key with its lock, compared with the token
dyn_verify_lock(t) ==
  /\ At(t, "dyn_verify_lock")
  /\ Return(t, Bool(dyn_verify_lock_result(frame[t].id, frame[t].lock)))
  /\ UNCHANGED <<lock_files, item_files, permits, now, frame, acquired, grants>>
  /\ UNCHANGED <<highest_seen_id, locals, observed>>
  /\ UNCHANGED <<table, permits2>>

\* ------------------------------------------------------ specifications
TaskStep(t) ==
  \/ Call(t)
  \/ exists_item(t)
  \/ exists_lock(t)
  \/ load(t)
  \/ verify_lock_meta(t)
  \/ verify_lock_read(t)
  \/ save_write(t)
  \/ lock_acquire(t)
  \/ lock_check(t)
  \/ lock_write(t)
  \/ lock_load(t)
  \/ lock_new_acquire(t)
  \/ lock_new_check(t)
  \/ lock_new_write(t)
  \/ lock_new_check_item(t)
  \/ lock_new_finish(t)
  \/ unlock_remove(t)
  \/ force_unlock_meta(t)
  \/ force_unlock_remove(t)
  \/ Finish(t)

\* tasks of a multi-threaded executor: any interleaving of their steps
Next == Tick \/ \E t \in Tasks : TaskStep(t)

Spec == Init /\ [][Next]_vars

\* one call at a time: a call starts and runs only while every other task is idle
SeqNext == Tick \/ \E t \in Tasks : (\A u \in Tasks \ {t} : Idle(u)) /\ TaskStep(t)

SeqSpec == Init /\ [][SeqNext]_vars

\* the create race: every task calls lock_new once, on an id that has no record
RaceCall(t) ==
  /\ Idle(t)
  /\ \E id \in Ids, who \in Who :
       frame' = [frame EXCEPT ![t] =
         [op |-> "lock_new", id |-> id, who |-> who, lock |-> NoLock, item |-> DefaultItem,
          tries |-> 0]]
  /\ pc' = [pc EXCEPT ![t] = Entry("lock_new")]
  /\ UNCHANGED <<lock_files, item_files, permits, now, rv, acquired, grants>>
  /\ UNCHANGED <<highest_seen_id, locals, observed>>
  /\ UNCHANGED <<table, permits2>>

RaceStep(t) ==
  \/ RaceCall(t)
  \/ lock_new_acquire(t)
  \/ exists_item(t)
  \/ exists_lock(t)
  \/ lock_new_check(t)
  \/ lock_new_write(t)
  \/ lock_new_check_item(t)
  \/ verify_lock_meta(t)
  \/ verify_lock_read(t)
  \/ save_write(t)
  \/ lock_new_finish(t)

RaceNext == Tick \/ \E t \in Tasks : RaceStep(t)

RaceSpec == Init /\ [][RaceNext]_vars

\* the calls the gate is about: tasks call only lock, lock_new and force_unlock
LinOps == {"lock", "lock_new", "force_unlock"}

LinCall(t) ==
  /\ Idle(t)
  /\ \E op \in LinOps, id \in Ids, who \in Who :
       /\ frame' = [frame EXCEPT ![t] =
            [op |-> op, id |-> id,
             who |-> IF op \in {"lock", "lock_new"} THEN who ELSE "",
             lock |-> NoLock, item |-> DefaultItem, tries |-> 0]]
       /\ pc' = [pc EXCEPT ![t] = Entry(op)]
  /\ UNCHANGED <<lock_files, item_files, permits, now, rv, acquired, grants>>
  /\ UNCHANGED <<highest_seen_id, locals, observed>>
  /\ UNCHANGED <<table, permits2>>

LinStep(t) ==
  \/ LinCall(t)
  \/ lock_acquire(t)
  \/ lock_check(t)
  \/ lock_write(t)
  \/ lock_load(t)
  \/ lock_new_acquire(t)
  \/ exists_item(t)
  \/ exists_lock(t)
  \/ lock_new_check(t)
  \/ lock_new_write(t)
  \/ lock_new_check_item(t)
  \/ verify_lock_meta(t)
  \/ verify_lock_read(t)
  \/ save_write(t)
  \/ lock_new_finish(t)
  \/ force_unlock_meta(t)
  \/ force_unlock_remove(t)
  \/ Finish(t)

LinNext == Tick \/ \E t \in Tasks : LinStep(t)

LinSpec == Init /\ [][LinNext]_vars

\* id generation next to the calls that take ids: create, lock, lock_new, force_unlock
CreateOps == LinOps \cup {"create"}

CreateCall(t) ==
  /\ Idle(t)
  /\ \E op \in CreateOps, id \in Ids, who \in Who :
       /\ frame' = [frame EXCEPT ![t] =
            [op |-> op, id |-> id,
             who |-> IF op \in {"lock", "lock_new"} THEN who ELSE "",
             lock |-> NoLock, item |-> DefaultItem,
             tries |-> IF op = "create" THEN CreateTries ELSE 0]]
       /\ pc' = [pc EXCEPT ![t] = Entry(op)]
  /\ UNCHANGED <<lock_files, item_files, permits, now, rv, acquired, grants>>
  /\ UNCHANGED <<highest_seen_id, locals, observed>>
  /\ UNCHANGED <<table, permits2>>

CreateStep(t) ==
  \/ CreateCall(t)
  \/ create_generate(t)
  \/ create_check(t)
  \/ lock_acquire(t)
  \/ lock_check(t)
  \/ lock_write(t)
  \/ lock_load(t)
  \/ lock_new_acquire(t)
  \/ exists_item(t)
  \/ exists_lock(t)
  \/ lock_new_check(t)
  \/ lock_new_write(t)
  \/ lock_new_check_item(t)
  \/ verify_lock_meta(t)
  \/ verify_lock_read(t)
  \/ save_write(t)
  \/ lock_new_finish(t)
  \/ force_unlock_meta(t)
  \/ force_unlock_remove(t)
  \/ Finish(t)

CreateNext == Tick \/ \E t \in Tasks : CreateStep(t)

CreateSpec == Init /\ [][CreateNext]_vars

\* every operation but wipe, called by concurrent tasks
KeepOps == Ops \cup {"create", "all_ids", "scan_ids"}

\* the clock stands still here: every token there is was taken at time 0
KeepLocks == {l \in StorageLock : l.when = 0}

KeepCall(t) ==
  /\ Idle(t)
  /\ \E op \in KeepOps, id \in Ids, who \in Who, l \in KeepLocks, i \in Items,
        start \in {None, Some(format_usize(0))}, limit \in {None, Some(1)} :
       /\ frame' = [frame EXCEPT ![t] =
            [op |-> op, id |-> id,
             who |-> IF op \in {"lock", "lock_new"} THEN who ELSE "",
             lock |-> IF op \in {"save", "unlock", "verify_lock"} THEN l ELSE NoLock,
             item |-> IF op = "save" THEN i ELSE DefaultItem,
             tries |-> IF op = "create" THEN CreateTries ELSE 0]]
       /\ locals' = [locals EXCEPT ![t] =
            IF op = "scan_ids" THEN [NoLocals EXCEPT !.start = start, !.limit = limit]
                               ELSE NoLocals]
       /\ pc' = [pc EXCEPT ![t] = Entry(op)]
  /\ UNCHANGED <<lock_files, item_files, permits, now, rv, acquired, grants>>
  /\ UNCHANGED <<highest_seen_id, observed>>
  /\ UNCHANGED <<table, permits2>>

KeepStep(t) ==
  \/ KeepCall(t)
  \/ create_generate(t)
  \/ create_check(t)
  \/ exists_item(t)
  \/ exists_lock(t)
  \/ load(t)
  \/ verify_lock_meta(t)
  \/ verify_lock_read(t)
  \/ save_write(t)
  \/ lock_acquire(t)
  \/ lock_check(t)
  \/ lock_write(t)
  \/ lock_load(t)
  \/ lock_new_acquire(t)
  \/ lock_new_check(t)
  \/ lock_new_write(t)
  \/ lock_new_check_item(t)
  \/ lock_new_finish(t)
  \/ unlock_remove(t)
  \/ force_unlock_meta(t)
  \/ force_unlock_remove(t)
  \/ all_ids(t)
  \/ scan_ids_page(t)
  \/ Finish(t)

KeepNext == \E t \in Tasks : KeepStep(t)

KeepSpec == Init /\ [][KeepNext]_vars

\* a store that already holds any mix of saved, locked and locked-but-never-
\* saved items, and on it the enumerations and wipe, one call at a time
StartArgs == {None, Some(<<"x">>)} \cup {Some(format_usize(n)) : n \in 0..MaxStart}
LimitArgs == {None} \cup {Some(n) : n \in 0..MaxLimit}
Confirmations == {WipePhrase, "yes", ""}
ScanOps == {"all_ids", "scan_ids", "paginate", "wipe"}

ScanInit ==
  /\ lock_files \in [ScanIds -> {NoFile, lock_to_json([who |-> "a", when |-> 0])}]
  /\ item_files \in [ScanIds -> {NoFile, item_serialize(DefaultItem)}]
  /\ permits = SemaphorePermits
  /\ now = 0
  /\ pc = [t \in Tasks |-> <<>>]
  /\ frame = [t \in Tasks |-> NoFrame]
  /\ rv = [t \in Tasks |-> NoRv]
  /\ acquired = [i \in ScanIds |-> IF file_exists(lock_files, i) THEN 1 ELSE 0]
  /\ grants = [i \in ScanIds |->
       IF file_exists(lock_files, i) THEN 1
       ELSE IF file_exists(item_files, i) THEN -1 ELSE 0]
  /\ highest_seen_id = NoId
  /\ observed = {}
  /\ table = [i \in DOMAIN item_files |-> NoItem]
  /\ permits2 = SemaphorePermits
  /\ locals = [t \in Tasks |-> NoLocals]

ScanCall(t) ==
  /\ Idle(t)
  /\ \E op \in ScanOps, start \in StartArgs, limit \in LimitArgs, c \in Confirmations :
       /\ frame' = [frame EXCEPT ![t] = [NoFrame EXCEPT !.op = op]]
       /\ locals' = [locals EXCEPT ![t] =
            CASE op = "scan_ids" -> [NoLocals EXCEPT !.start = start, !.limit = limit]
              [] op = "paginate" ->
                   [NoLocals EXCEPT !.limit = IF limit.some /\ limit.v >= 1 THEN limit ELSE Some(1)]
              [] op = "wipe" -> [NoLocals EXCEPT !.confirmation = c]
              [] OTHER -> NoLocals]
       /\ pc' = [pc EXCEPT ![t] = Entry(op)]
  /\ UNCHANGED <<lock_files, item_files, permits, now, rv, acquired, grants>>
  /\ UNCHANGED <<highest_seen_id, observed>>
  /\ UNCHANGED <<table, permits2>>

ScanStep(t) ==
  \/ ScanCall(t)
  \/ all_ids(t)
  \/ scan_ids_page(t)
  \/ paginate_next(t)
  \/ wipe_confirm(t)
  \/ wipe_acquire(t)
  \/ wipe_ids(t)
  \/ wipe_remove_lock(t)
  \/ wipe_remove_item(t)
  \/ Finish(t)

ScanNext == \E t \in Tasks : (\A u \in Tasks \ {t} : Idle(u)) /\ ScanStep(t)

ScanSpec == ScanInit /\ [][ScanNext]_vars

\* the same on a directory in which files that are not of the store may lie
JunkInit ==
  /\ lock_files \in [JunkIds -> {NoFile, lock_to_json([who |-> "a", when |-> 0])}]
  /\ item_files \in [JunkIds -> {NoFile, item_serialize(DefaultItem)}]
  /\ permits = SemaphorePermits
  /\ now = 0
  /\ pc = [t \in Tasks |-> <<>>]
  /\ frame = [t \in Tasks |-> NoFrame]
  /\ rv = [t \in Tasks |-> NoRv]
  /\ acquired = [i \in JunkIds |-> IF file_exists(lock_files, i) THEN 1 ELSE 0]
  /\ grants = [i \in JunkIds |->
       IF file_exists(lock_files, i) THEN 1
       ELSE IF file_exists(item_files, i) THEN -1 ELSE 0]
  /\ highest_seen_id = NoId
  /\ observed = {}
  /\ locals = [t \in Tasks |-> NoLocals]
  /\ table = [i \in JunkIds |-> NoItem]
  /\ permits2 = SemaphorePermits

JunkSpec == JunkInit /\ [][ScanNext]_vars

\* the operations of concurrent tasks on one backend instance, as far as the
\* cell of Metadata goes: each is a call of update_highest_seen_id with its id
MetaCall(t) ==
  /\ Idle(t)
  /\ \E id \in SeenIds :
       /\ frame' = [frame EXCEPT ![t] = [NoFrame EXCEPT !.op = "update_highest_seen_id"]]
       /\ locals' = [locals EXCEPT ![t] = [NoLocals EXCEPT !.id = Some(id)]]
       /\ pc' = [pc EXCEPT ![t] = Entry("update_highest_seen_id")]
  /\ UNCHANGED <<lock_files, item_files, permits, now, rv, acquired, grants>>
  /\ UNCHANGED <<highest_seen_id, observed>>
  /\ UNCHANGED <<table, permits2>>

MetaStep(t) ==
  \/ MetaCall(t)
  \/ update_read(t)
  \/ update_write(t)
  \/ Finish(t)

MetaNext == \E t \in Tasks : MetaStep(t)

MetaSpec == Init /\ [][MetaNext]_vars

\* the id types on their own: an id is turned into text and parsed back, or
\* a SequentialId is generated from a previous one; one call at a time
IdCall(t) ==
  /\ Idle(t)
  /\ \/ \E id \in ValidIds :
          /\ frame' = [frame EXCEPT ![t] = [NoFrame EXCEPT !.op = "round_trip"]]
          /\ locals' = [locals EXCEPT ![t] = [NoLocals EXCEPT !.id = Some(id)]]
          /\ pc' = [pc EXCEPT ![t] = Entry("round_trip")]
     \/ \E previous \in {None} \cup {Some(SequentialId(n)) : n \in U64} :
          /\ frame' = [frame EXCEPT ![t] = [NoFrame EXCEPT !.op = "generate_new"]]
          /\ locals' = [locals EXCEPT ![t] = [NoLocals EXCEPT !.id = previous]]
          /\ pc' = [pc EXCEPT ![t] = Entry("generate_new")]
  /\ UNCHANGED <<lock_files, item_files, permits, now, rv, acquired, grants>>
  /\ UNCHANGED <<highest_seen_id, observed>>
  /\ UNCHANGED <<table, permits2>>

IdStep(t) ==
  \/ IdCall(t)
  \/ to_string(t)
  \/ from_string(t)
  \/ generate_new(t)
  \/ Finish(t)

IdNext == \E t \in Tasks : (\A u \in Tasks \ {t} : Idle(u)) /\ IdStep(t)

IdSpec == Init /\ [][IdNext]_vars

\* two processes on one directory: task t1 calls lock on the first StorageDisk,
\* task t2 on the second
TwoCall(t) ==
  /\ Idle(t)
  /\ \E id \in Ids, who \in Who :
       /\ frame' = [frame EXCEPT ![t] = [NoFrame EXCEPT !.op = "lock", !.id = id, !.who = who]]
       /\ pc' = [pc EXCEPT ![t] = IF t = "t1" THEN <<"lock_acquire">> ELSE <<"lock_acquire2">>]
  /\ UNCHANGED <<lock_files, item_files, permits, now, rv, acquired, grants>>
  /\ UNCHANGED <<highest_seen_id, locals, observed>>
  /\ UNCHANGED <<table, permits2>>

TwoStep(t) ==
  \/ TwoCall(t)
  \/ lock_acquire(t)
  \/ lock_check(t)
  \/ lock_write(t)
  \/ lock_load(t)
  \/ lock_acquire2(t)
  \/ lock_check2(t)
  \/ lock_write2(t)
  \/ lock_load2(t)
  \/ Finish(t)

TwoNext == Tick \/ \E t \in Tasks : TwoStep(t)

TwoSpec == Init /\ [][TwoNext]_vars

\* the first step of an operation of StorageDynamoDb
DynEntry(op) ==
  CASE op = "lock" -> <<"dyn_lock">>
    [] op = "save" -> <<"dyn_save">>
    [] op = "unlock" -> <<"dyn_unlock">>
    [] op = "force_unlock" -> <<"dyn_force_unlock">>
    [] op = "exists" -> <<"dyn_exists">>
    [] op = "verify_lock" -> <<"dyn_verify_lock">>

DynOps == {"lock", "save", "unlock", "force_unlock", "exists", "verify_lock"}

\* processes that share one table: each task is a process with its own
\* StorageDynamoDb
DynCall(t) ==
  /\ Idle(t)
  /\ \E op \in DynOps, id \in Ids, who \in Who, l \in StorageLock, i \in Items :
       /\ frame' = [frame EXCEPT ![t] =
            [op |-> op, id |-> id,
             who |-> IF op = "lock" THEN who ELSE "",
             lock |-> IF op \in {"save", "unlock", "verify_lock"} THEN l ELSE NoLock,
             item |-> IF op = "save" THEN i ELSE DefaultItem,
             tries |-> 0]]
       /\ pc' = [pc EXCEPT ![t] = DynEntry(op)]
  /\ UNCHANGED <<lock_files, item_files, permits, now, rv, acquired, grants>>
  /\ UNCHANGED <<highest_seen_id, locals, observed>>
  /\ UNCHANGED <<table, permits2>>

DynStep(t) ==
  \/ DynCall(t)
  \/ dyn_lock(t)
  \/ dyn_lock_update(t)
  \/ dyn_save(t)
  \/ dyn_unlock(t)
  \/ dyn_force_unlock(t)
  \/ dyn_exists(t)
  \/ dyn_verify_lock(t)
  \/ Finish(t)

DynNext == Tick \/ \E t \in Tasks : DynStep(t)

DynSpec == Init /\ [][DynNext]_vars

\* a build with the feature "metadata" on a store that holds any mix of
\* items: exists, all_ids and scan_ids, one call at a time
SeenOps == {"exists", "all_ids", "scan_ids"}

SeenEntry(op) ==
  CASE op = "exists" -> <<"exists_item", "exists_seen">>
    [] op = "all_ids" -> <<"all_ids_list", "update_read", "all_ids_return">>
    [] op = "scan_ids" -> <<"all_ids_list", "update_read", "all_ids_return", "scan_ids_page">>

SeenCall(t) ==
  /\ Idle(t)
  /\ \E op \in SeenOps, id \in ScanIds, start \in StartArgs, limit \in LimitArgs :
       /\ frame' = [frame EXCEPT ![t] =
            [NoFrame EXCEPT !.op = op, !.id = IF op = "exists" THEN id ELSE NoFrame.id]]
       /\ locals' = [locals EXCEPT ![t] =
            IF op = "scan_ids" THEN [NoLocals EXCEPT !.start = start, !.limit = limit]
                               ELSE NoLocals]
       /\ pc' = [pc EXCEPT ![t] = SeenEntry(op)]
  /\ UNCHANGED <<lock_files, item_files, permits, now, rv, acquired, grants>>
  /\ UNCHANGED <<highest_seen_id, observed>>
  /\ UNCHANGED <<table, permits2>>

SeenStep(t) ==
  \/ SeenCall(t)
  \/ exists_item(t)
  \/ exists_lock(t)
  \/ exists_seen(t)
  \/ exists_return(t)
  \/ all_ids_list(t)
  \/ update_read(t)
  \/ update_write(t)
  \/ all_ids_return(t)
  \/ scan_ids_page(t)
  \/ Finish(t)

SeenNext == \E t \in Tasks : (\A u \in Tasks \ {t} : Idle(u)) /\ SeenStep(t)

SeenSpec == ScanInit /\ [][SeenNext]_vars

\* unlock against force_unlock and lock of other tasks, the clock standing still
UnlockOps == {"lock", "unlock", "force_unlock"}

UnlockCall(t) ==
  /\ Idle(t)
  /\ \E op \in UnlockOps, id \in Ids, who \in Who, l \in KeepLocks :
       /\ frame' = [frame EXCEPT ![t] =
            [NoFrame EXCEPT !.op = op, !.id = id,
                            !.who = IF op = "lock" THEN who ELSE "",
                            !.lock = IF op = "unlock" THEN l ELSE NoLock]]
       /\ pc' = [pc EXCEPT ![t] = Entry(op)]
  /\ UNCHANGED <<lock_files, item_files, permits, now, rv, acquired, grants>>
  /\ UNCHANGED <<highest_seen_id, locals, observed>>
  /\ UNCHANGED <<table, permits2>>

UnlockStep(t) ==
  \/ UnlockCall(t)
  \/ lock_acquire(t)
  \/ lock_check(t)
  \/ lock_write(t)
  \/ lock_load(t)
  \/ verify_lock_meta(t)
  \/ verify_lock_read(t)
  \/ unlock_remove(t)
  \/ force_unlock_meta(t)
  \/ force_unlock_remove(t)
  \/ Finish(t)

UnlockNext == \E t \in Tasks : UnlockStep(t)

UnlockSpec == Init /\ [][UnlockNext]_vars

\* ids of any text on one directory, one call at a time, the clock standing
\* still: a call works on the files that file_path and lock_path name
PathOps == {"lock", "lock_new", "save", "unlock", "force_unlock"}

PathInit ==
  /\ lock_files = [i \in PathStems |-> NoFile]
  /\ item_files = [i \in PathStems |-> NoFile]
  /\ permits = SemaphorePermits
  /\ now = 0
  /\ pc = [t \in Tasks |-> <<>>]
  /\ frame = [t \in Tasks |-> NoFrame]
  /\ rv = [t \in Tasks |-> NoRv]
  /\ acquired = [i \in PathStems |-> 0]
  /\ grants = [i \in PathStems |-> 0]
  /\ highest_seen_id = NoId
  /\ observed = {}
  /\ table = [i \in DOMAIN item_files |-> NoItem]
  /\ permits2 = SemaphorePermits
  /\ locals = [t \in Tasks |-> NoLocals]

PathCall(t) ==
  /\ Idle(t)
  /\ \E op \in PathOps, id \in PathIds, who \in Who, l \in KeepLocks, i \in Items :
       /\ frame' = [frame EXCEPT ![t] =
            [NoFrame EXCEPT !.op = op, !.id = path_stem(id),
                            !.who = IF op \in {"lock", "lock_new"} THEN who ELSE "",
                            !.lock = IF op \in {"save", "unlock"} THEN l ELSE NoLock,
                            !.item = IF op = "save" THEN i ELSE DefaultItem]]
       /\ locals' = [locals EXCEPT ![t] = [NoLocals EXCEPT !.id = Some(id)]]
       /\ pc' = [pc EXCEPT ![t] = Entry(op)]
  /\ UNCHANGED <<lock_files, item_files, permits, now, rv, acquired, grants>>
  /\ UNCHANGED <<highest_seen_id, observed>>
  /\ UNCHANGED <<table, permits2>>

PathStep(t) ==
  \/ PathCall(t)
  \/ verify_lock_meta(t)
  \/ verify_lock_read(t)
  \/ save_write(t)
  \/ lock_acquire(t)
  \/ lock_check(t)
  \/ lock_write(t)
  \/ lock_load(t)
  \/ lock_new_acquire(t)
  \/ lock_new_check(t)
  \/ lock_new_write(t)
  \/ lock_new_check_item(t)
  \/ lock_new_finish(t)
  \/ unlock_remove(t)
  \/ force_unlock_meta(t)
  \/ force_unlock_remove(t)
  \/ Finish(t)

PathNext == \E t \in Tasks : (\A u \in Tasks \ {t} : Idle(u)) /\ PathStep(t)

PathSpec == PathInit /\ [][PathNext]_vars

\* the tasks of one process share one StorageDisk: the operations that take
\* the semaphore, and save and force_unlock, which write the payload and
\* remove lockfiles under them
GateOps == {"lock", "lock_new", "wipe", "save", "force_unlock"}

GateCall(t) ==
  /\ Idle(t)
  /\ \E op \in GateOps, id \in Ids, who \in Who, l \in KeepLocks, c \in Confirmations :
       /\ frame' = [frame EXCEPT ![t] =
            [NoFrame EXCEPT !.op = op,
                            !.id = IF op = "wipe" THEN NoFrame.id ELSE id,
                            !.who = IF op \in {"lock", "lock_new"} THEN who ELSE "",
                            !.lock = IF op = "save" THEN l ELSE NoLock]]
       /\ locals' = [locals EXCEPT ![t] =
            IF op = "wipe" THEN [NoLocals EXCEPT !.confirmation = c] ELSE NoLocals]
       /\ pc' = [pc EXCEPT ![t] = Entry(op)]
  /\ UNCHANGED <<lock_files, item_files, permits, now, rv, acquired, grants>>
  /\ UNCHANGED <<highest_seen_id, observed>>
  /\ UNCHANGED <<table, permits2>>

\* self.lock_semaphore.acquire().await
GateAcquire(t) ==
  \/ lock_acquire(t)
  \/ lock_new_acquire(t)
  \/ wipe_acquire(t)

\* the steps of a call that wait for nothing
GateRun(t) ==
  \/ lock_check(t)
  \/ lock_write(t)
  \/ lock_load(t)
  \/ exists_item(t)
  \/ exists_lock(t)
  \/ lock_new_check(t)
  \/ lock_new_write(t)
  \/ lock_new_check_item(t)
  \/ verify_lock_meta(t)
  \/ verify_lock_read(t)
  \/ save_write(t)
  \/ unlock_remove(t)
  \/ lock_new_finish(t)
  \/ force_unlock_meta(t)
  \/ force_unlock_remove(t)
  \/ wipe_confirm(t)
  \/ all_ids(t)
  \/ wipe_ids(t)
  \/ wipe_remove_lock(t)
  \/ wipe_remove_item(t)

GateStep(t) ==
  \/ GateCall(t)
  \/ GateAcquire(t)
  \/ GateRun(t)
  \/ Finish(t)

GateNext == \E t \in Tasks : GateStep(t)

GateSpec == Init /\ [][GateNext]_vars

\* the runtime polls every task that can run, and the tokio Semaphore hands
\* its permits out in the order of the acquire calls, so a waiting task that
\* can take the permit again and again does take it
GateLiveSpec ==
  /\ Init
  /\ [][GateNext]_vars
  /\ \A t \in Tasks : WF_vars(GateRun(t)) /\ SF_vars(GateAcquire(t))

\* a caller follows the continuations of scan_ids on a store that nothing
\* else touches, with any limit
FollowCall(t) ==
  /\ Idle(t)
  /\ \E limit \in LimitArgs :
       /\ frame' = [frame EXCEPT ![t] = [NoFrame EXCEPT !.op = "follow"]]
       /\ locals' = [locals EXCEPT ![t] = [NoLocals EXCEPT !.limit = limit]]
       /\ pc' = [pc EXCEPT ![t] = Entry("follow")]
  /\ UNCHANGED <<lock_files, item_files, permits, now, rv, acquired, grants>>
  /\ UNCHANGED <<highest_seen_id, observed>>
  /\ UNCHANGED <<table, permits2>>

\* the steps of the caller's loop
FollowRun(t) ==
  \/ all_ids(t)
  \/ scan_ids_page(t)
  \/ paginate_loop(t)

FollowStep(t) ==
  \/ FollowCall(t)
  \/ FollowRun(t)
  \/ Finish(t)

FollowNext == \E t \in Tasks : (\A u \in Tasks \ {t} : Idle(u)) /\ FollowStep(t)

FollowSpec == ScanInit /\ [][FollowNext]_vars

\* the caller keeps running: each step of its loop that can be taken is taken
FollowLiveSpec ==
  /\ ScanInit
  /\ [][FollowNext]_vars
  /\ \A t \in Tasks : WF_vars((\A u \in Tasks \ {t} : Idle(u)) /\ FollowRun(t))

\* one sequence of lock, save, unlock and force_unlock calls applied to a
\* StorageDisk (by t1) and to a StorageDynamoDb (by t2), both empty at the
\* start, a call at a time, the clock standing still
EquivOps == {"lock", "save", "unlock", "force_unlock"}
DiskTask == "t1"
DynamoDbTask == "t2"

EquivCall ==
  /\ \A t \in Tasks : Idle(t)
  /\ \E op \in EquivOps, id \in Ids, who \in Who, l \in KeepLocks, i \in Items :
       /\ frame' = [t \in Tasks |->
            [NoFrame EXCEPT !.op = op, !.id = id,
                            !.who = IF op = "lock" THEN who ELSE "",
                            !.lock = IF op \in {"save", "unlock"} THEN l ELSE NoLock,
                            !.item = IF op = "save" THEN i ELSE DefaultItem]]
       /\ pc' = [t \in Tasks |-> IF t = DiskTask THEN Entry(op) ELSE DynEntry(op)]
  /\ UNCHANGED <<lock_files, item_files, permits, now, rv, acquired, grants>>
  /\ UNCHANGED <<highest_seen_id, locals, observed>>
  /\ UNCHANGED <<table, permits2>>

\* both backends have answered the call
EquivFinish ==
  /\ \A t \in Tasks : Done(t)
  /\ frame' = [t \in Tasks |-> NoFrame]
  /\ rv' = [t \in Tasks |-> NoRv]
  /\ UNCHANGED <<lock_files, item_files, permits, now, pc, acquired, grants>>
  /\ UNCHANGED <<highest_seen_id, locals, observed>>
  /\ UNCHANGED <<table, permits2>>

EquivDisk(t) ==
  \/ verify_lock_meta(t)
  \/ verify_lock_read(t)
  \/ save_write(t)
  \/ lock_acquire(t)
  \/ lock_check(t)
  \/ lock_write(t)
  \/ lock_load(t)
  \/ unlock_remove(t)
  \/ force_unlock_meta(t)
  \/ force_unlock_remove(t)

EquivDynamoDb(t) ==
  \/ dyn_lock(t)
  \/ dyn_lock_update(t)
  \/ dyn_save(t)
  \/ dyn_unlock(t)
  \/ dyn_force_unlock(t)

EquivNext ==
  \/ EquivCall
  \/ EquivDisk(DiskTask)
  \/ EquivDynamoDb(DynamoDbTask)
  \/ EquivFinish

EquivSpec == Init /\ [][EquivNext]_vars

\* ------------------------------------------------------------- the claims
\* the lock recorded for id, NoLock when there is no lock record
RecordedLock(id) == IF lock_files[id] = NoFile THEN NoLock ELSE lock_from_json(lock_files[id])
\* the item of the payload record of id, or the default item when there is none
PayloadOrDefault(id) == IF item_files[id] = NoFile THEN DefaultItem ELSE item_deserialize(item_files[id])
\* what verify_lock(id, l) answers when it runs in this state
verify_lock_result(id, l) == file_exists(lock_files, id) /\ lock_matches(lock_files[id], l)
\* task t takes a step
Stepped(t) == pc'[t] # pc[t] \/ frame'[t] # frame[t]
CallOf(t, op) == frame[t].op = op

\* C1: on one backend instance a lock record is written by lock or lock_new only
\* while no record written earlier is still in place (every record is removed by
\* unlock or force_unlock before the next one is written), and as long as no
\* record of an id has been removed at most one lock or lock_new call on it has
\* returned Success: a lock call returns Success or AlreadyLocked, and one that
\* returns AlreadyLocked then found the record of the one Success.
C1_Exclusive ==
  /\ \A i \in Ids : acquired[i] <= 1 /\ grants[i] <= 1
  /\ \A t \in Tasks : Done(t) /\ CallOf(t, "lock") =>
       /\ rv[t].kind \in {"Success", "AlreadyLocked"}
       /\ rv[t].kind = "AlreadyLocked" /\ grants[frame[t].id] >= 0 => acquired[frame[t].id] = 1

\* two lock calls on the same id have returned, one Success and one AlreadyLocked
C1_Witness ==
  \E t, u \in Tasks :
    /\ Done(t) /\ CallOf(t, "lock") /\ rv[t].kind = "Success"
    /\ Done(u) /\ CallOf(u, "lock") /\ rv[u].kind = "AlreadyLocked"
    /\ frame[t].id = frame[u].id /\ grants[frame[t].id] = 1

\* C2: save writes the payload record only at a moment when the recorded lock
\* equals the token presented to it.
C2_SaveUnderLock ==
  [][\A t \in Tasks :
       At(t, "save_write") /\ Stepped(t) /\ item_files' # item_files
         => RecordedLock(frame[t].id) = frame[t].lock]_vars

\* C3: with one call at a time, a save whose token is not the recorded lock
\* (or when there is no lock record) returns LockInvalid and no step of it
\* changes the payload record or the lock record; a save with the recorded
\* token returns Ok and the payload record then holds its item.
C3_SaveLockInvalid ==
  /\ [](\A t \in Tasks : Done(t) /\ CallOf(t, "save") =>
          IF RecordedLock(frame[t].id) = frame[t].lock
            THEN rv[t] = OkUnit /\ item_files[frame[t].id] = item_serialize(frame[t].item)
            ELSE rv[t] = Err("LockInvalid"))
  /\ [][\A t \in Tasks :
          CallOf(t, "save") /\ RecordedLock(frame[t].id) # frame[t].lock
            => item_files' = item_files /\ lock_files' = lock_files]_vars

\* a save with a token other than the recorded one was refused and the payload,
\* which differs from the item presented, is still there
C3_Witness ==
  \E t \in Tasks :
    /\ Done(t) /\ CallOf(t, "save") /\ rv[t] = Err("LockInvalid")
    /\ lock_files[frame[t].id] # NoFile
    /\ item_files[frame[t].id] # NoFile
    /\ item_files[frame[t].id] # item_serialize(frame[t].item)

\* C4: with one call at a time, after a save that returned Ok a load of the id
\* returns the saved item (load returns what the payload record holds), and no
\* step of unlock changes the payload record.
C4_SaveThenLoad ==
  /\ [](\A t \in Tasks :
          /\ Done(t) /\ CallOf(t, "save") /\ rv[t] = OkUnit
               => load_result(frame[t].id) = OkItem(frame[t].item)
          /\ Done(t) /\ CallOf(t, "load") /\ item_files[frame[t].id] # NoFile
               => rv[t] = OkItem(item_deserialize(item_files[frame[t].id])))
  /\ [][\A t \in Tasks : CallOf(t, "unlock") => item_files' = item_files]_vars

\* a load returned a saved (non-default) item while the id is unlocked again
C4_Witness ==
  \E t \in Tasks :
    /\ Done(t) /\ CallOf(t, "load") /\ rv[t] = OkItem(1)
    /\ lock_files[frame[t].id] = NoFile
    /\ grants[frame[t].id] = -1

\* C5: lock returns AlreadyLocked exactly when the lock record exists at its
\* check; otherwise it goes on to write a lock record equal to the token it
\* returns with Success.
C5_LockOutcome ==
  /\ [][\A t \in Tasks :
          /\ At(t, "lock_check") /\ Stepped(t) =>
               IF lock_files[frame[t].id] # NoFile
                 THEN pc'[t] = <<>> /\ rv'[t].kind = "AlreadyLocked"
                 ELSE pc'[t] = <<"lock_write">>
          /\ At(t, "lock_write") /\ Stepped(t) =>
               /\ lock_files'[frame[t].id] = lock_to_json(frame'[t].lock)
               /\ frame'[t].lock.who = frame[t].who
          /\ At(t, "lock_load") /\ Stepped(t) =>
               pc'[t] = <<>> /\ rv'[t].kind = "Success" /\ rv'[t].lock = frame[t].lock]_vars
  /\ [](\A t \in Tasks : Done(t) /\ CallOf(t, "lock") /\ rv[t].kind = "Success" =>
          rv[t].lock = frame[t].lock)

\* a lock returned Success on an id whose earlier lock record had been removed
C5_Witness ==
  \E t \in Tasks :
    /\ Done(t) /\ CallOf(t, "lock") /\ rv[t].kind = "Success"
    /\ grants[frame[t].id] = -1
    /\ RecordedLock(frame[t].id) = rv[t].lock

\* C6: the who of an AlreadyLocked outcome is the owner of the recorded lock.
C6_AlreadyLockedWho ==
  \A t \in Tasks :
    Done(t) /\ rv[t].kind = "AlreadyLocked" /\ lock_files[frame[t].id] # NoFile
      => rv[t].who = RecordedLock(frame[t].id).who

\* C7: with one call at a time, a lock that returned Success returns the item
\* of the payload record, or the default item when there is none, and no step
\* of lock changes the payload record.
C7_LockItem ==
  /\ [](\A t \in Tasks : Done(t) /\ CallOf(t, "lock") /\ rv[t].kind = "Success" =>
          rv[t].item = PayloadOrDefault(frame[t].id))
  /\ [][\A t \in Tasks : CallOf(t, "lock") => item_files' = item_files]_vars

\* a lock returned a saved (non-default) item
C7_Witness ==
  \E t \in Tasks :
    /\ Done(t) /\ CallOf(t, "lock") /\ rv[t].kind = "Success"
    /\ rv[t].item = 1 /\ item_files[frame[t].id] = item_serialize(1)

C9_LockNewOnlyNew ==
  [][\A t \in Tasks :
       /\ At(t, "lock_new_check") /\ Stepped(t) /\ pc'[t] # <<>> =>
            rv[t] = Bool(FALSE) /\ lock_files[frame[t].id] = NoFile
       /\ CallOf(t, "lock_new") /\ Stepped(t) /\ item_files' # item_files =>
            item_files[frame[t].id] = NoFile]_vars

\* a lock_new on an id with a payload record was refused and the payload is still there
C9_Witness ==
  \E t \in Tasks :
    /\ Done(t) /\ CallOf(t, "lock_new") /\ rv[t] = AlreadyExists
    /\ item_files[frame[t].id] = item_serialize(1)

\* C10: lock_new returns AlreadyExists only for an item with a payload record
\* and no lock record, and AlreadyLocked when the id has a lock record.
C10_Refusals ==
  \A t \in Tasks : Done(t) /\ CallOf(t, "lock_new") /\ rv[t].kind # "Success" =>
    /\ rv[t].kind = "AlreadyExists" =>
         item_files[frame[t].id] # NoFile /\ lock_files[frame[t].id] = NoFile
    /\ lock_files[frame[t].id] # NoFile => rv[t].kind = "AlreadyLocked"

\* C11: when every task calls lock_new once on the same id that has no record,
\* at most one call returns Success, every call that does not returns
\* AlreadyExists (the same refusal in every interleaving), and once all calls
\* have returned exactly one of them has returned Success.
C11_CreateRace ==
  /\ Cardinality({t \in Tasks : Done(t) /\ rv[t].kind = "Success"}) <= 1
  /\ \A t \in Tasks : Done(t) /\ rv[t].kind # "Success" => rv[t] = AlreadyExists
  /\ (\A t \in Tasks : Done(t)) => \E t \in Tasks : rv[t].kind = "Success"

\* both lock_new calls of the race have returned, one Success and one AlreadyExists
C11_Witness ==
  \E t, u \in Tasks :
    /\ Done(t) /\ CallOf(t, "lock_new") /\ rv[t].kind = "Success"
    /\ Done(u) /\ CallOf(u, "lock_new") /\ rv[u] = AlreadyExists
    /\ frame[t].id = frame[u].id

\* C12: concurrent lock, lock_new and force_unlock calls return what some
\* sequential order of them returns.  In every sequential order lock_new
\* returns Success, AlreadyExists or AlreadyLocked and never an error, so no
\* lock_new call among concurrent lock, lock_new and force_unlock calls
\* returns an error.
C12_Linearizable ==
  \A t \in Tasks : Done(t) /\ CallOf(t, "lock_new") =>
    rv[t].kind \in {"Success", "AlreadyExists", "AlreadyLocked"}

\* C13: once unlock(id, L) has returned Ok, verify_lock(id, L) answers false in
\* every later state (so save with L is refused), whatever calls follow,
\* later lock and lock_new calls on the id included.
C13_UnlockedTokenDead ==
  \A u \in Tasks : Done(u) /\ CallOf(u, "unlock") /\ rv[u] = OkUnit =>
    ~verify_lock_result(frame[u].id, frame[u].lock)

\* C14: with one call at a time, unlock with a token that is not the recorded
\* lock, or when there is no lock record, returns LockInvalid and no step of it
\* changes the lock record or the payload record; unlock with the recorded
\* token returns Ok and removes the lock record, so a second unlock with the
\* same token is refused.
C14_UnlockInvalid ==
  /\ [][\A t \in Tasks :
          /\ CallOf(t, "unlock") /\ At(t, "unlock_remove") /\ Stepped(t) =>
               IF RecordedLock(frame[t].id) = frame[t].lock
                 THEN rv'[t] = OkUnit /\ lock_files'[frame[t].id] = NoFile
                 ELSE rv'[t] = Err("LockInvalid")
          /\ CallOf(t, "unlock") /\ RecordedLock(frame[t].id) # frame[t].lock =>
               lock_files' = lock_files /\ item_files' = item_files]_vars
  /\ [](\A t \in Tasks : Done(t) /\ CallOf(t, "unlock") =>
          \/ rv[t] = OkUnit /\ lock_files[frame[t].id] = NoFile
          \/ rv[t] = Err("LockInvalid") /\ RecordedLock(frame[t].id) # frame[t].lock)

\* an unlock was refused on an id whose lock record had been removed before,
\* and the saved payload is still there
C14_Witness ==
  \E t \in Tasks :
    /\ Done(t) /\ CallOf(t, "unlock") /\ rv[t] = Err("LockInvalid")
    /\ lock_files[frame[t].id] = NoFile /\ grants[frame[t].id] = -1
    /\ item_files[frame[t].id] = item_serialize(1)

\* C15: no step of unlock or force_unlock, and no step of lock, changes the
\* payload record: what load returns is the same before a lock and after the
\* unlock or force_unlock that follows it without a save.
C15_UnlockKeepsPayload ==
  [][\A t \in Tasks :
       /\ (CallOf(t, "unlock") \/ CallOf(t, "force_unlock") \/ CallOf(t, "lock")
              \/ At(t, "unlock_remove"))
       /\ Stepped(t)
       => item_files' = item_files /\ load_result(frame[t].id)' = load_result(frame[t].id)]_vars

\* an unlock returned Ok on an id that was locked and never saved: load still finds nothing
C15_Witness ==
  \E t \in Tasks :
    /\ Done(t) /\ CallOf(t, "unlock") /\ rv[t] = OkUnit
    /\ item_files[frame[t].id] = NoFile
    /\ load_result(frame[t].id) = Err("NotFound")

\* C16: with one call at a time, force_unlock on an id that has a lock record
\* returns Ok, without a token, and removes the record; after it no token
\* verifies, a lock call is refused only while a lock record is in place (so
\* the next lock returns Success), and once lock has returned Success for an
\* owner no token of another owner verifies.
C16_StaleLockRecovery ==
  /\ [][\A t \in Tasks :
          /\ At(t, "force_unlock_meta") /\ Stepped(t) /\ lock_files[frame[t].id] # NoFile =>
               pc'[t] = <<"force_unlock_remove">>
          /\ At(t, "force_unlock_remove") /\ Stepped(t) =>
               rv'[t] = OkUnit /\ lock_files[frame[t].id] # NoFile /\ lock_files'[frame[t].id] = NoFile]_vars
  /\ [](\A t \in Tasks :
          /\ Done(t) /\ CallOf(t, "force_unlock") /\ rv[t] = OkUnit =>
               /\ lock_files[frame[t].id] = NoFile
               /\ \A l \in StorageLock : ~verify_lock_result(frame[t].id, l)
          /\ Done(t) /\ CallOf(t, "lock") /\ rv[t].kind = "AlreadyLocked" =>
               lock_files[frame[t].id] # NoFile /\ acquired[frame[t].id] = 1
          /\ Done(t) /\ CallOf(t, "lock") /\ rv[t].kind = "Success" =>
               \A l \in StorageLock : l.who # frame[t].who => ~verify_lock_result(frame[t].id, l))

\* a force_unlock removed the lock record of an id whose holder had saved a payload
C16_Witness ==
  \E t \in Tasks :
    /\ Done(t) /\ CallOf(t, "force_unlock") /\ rv[t] = OkUnit
    /\ lock_files[frame[t].id] = NoFile
    /\ item_files[frame[t].id] = item_serialize(1)

\* C17: a force_unlock that finds no lock record for its id returns the
\* NotLocked error at once and changes neither the payload record nor any
\* lock record.
C17_ForceUnlockNotLocked ==
  [][\A t \in Tasks :
       At(t, "force_unlock_meta") /\ Stepped(t) /\ lock_files[frame[t].id] = NoFile =>
         /\ pc'[t] = <<>> /\ rv'[t] = Err("NotLocked")
         /\ lock_files' = lock_files /\ item_files' = item_files]_vars

\* a force_unlock was refused with NotLocked; the payload is there and no lock record is
C17_Witness ==
  \E t \in Tasks :
    /\ Done(t) /\ CallOf(t, "force_unlock") /\ rv[t] = Err("NotLocked")
    /\ lock_files[frame[t].id] = NoFile
    /\ item_files[frame[t].id] = item_serialize(DefaultItem)

\* C18: with one call at a time, exists(id) answers true exactly when the
\* payload record or the lock record of id exists; so it answers true between
\* a lock that returned Success on an id without records and the first save.
C18_Exists ==
  \A t \in Tasks : Done(t) /\ CallOf(t, "exists") =>
    rv[t] = Bool(item_files[frame[t].id] # NoFile \/ lock_files[frame[t].id] # NoFile)

\* exists answered true for an id that was locked while it had no record and
\* has not been saved yet: only the lock record is there
C18_Witness ==
  \E t \in Tasks :
    /\ Done(t) /\ CallOf(t, "exists") /\ rv[t] = Bool(TRUE)
    /\ item_files[frame[t].id] = NoFile /\ lock_files[frame[t].id] # NoFile
    /\ grants[frame[t].id] = 1 /\ acquired[frame[t].id] = 1

\* C19: load returns the item of the payload record when there is one and the
\* NotFound error when there is none, whether or not a lock record exists,
\* and its step changes no payload record, no lock record and not the gate.
C19_Load ==
  [][\A t \in Tasks :
       CallOf(t, "load") /\ At(t, "load") /\ Stepped(t) =>
         /\ pc'[t] = <<>>
         /\ rv'[t] = IF item_files[frame[t].id] # NoFile
                        THEN OkItem(item_deserialize(item_files[frame[t].id]))
                        ELSE Err("NotFound")
         /\ item_files' = item_files /\ lock_files' = lock_files /\ permits' = permits]_vars

\* a load returned the saved item while the id has a lock record
C19_Witness ==
  \E t \in Tasks :
    /\ Done(t) /\ CallOf(t, "load") /\ rv[t] = OkItem(1)
    /\ lock_files[frame[t].id] # NoFile

\* C20: create returns an id only after its exists check of that id answered
\* false (the payload record was absent at the first look and the lock record
\* at the second), and no step of create changes a payload record, a lock
\* record or the gate: the id is not reserved.
C20_CreateNoReserve ==
  [][\A t \in Tasks :
       /\ CallOf(t, "create") /\ Stepped(t) =>
            item_files' = item_files /\ lock_files' = lock_files /\ permits' = permits
       /\ At(t, "create_check") /\ Stepped(t) /\ rv'[t].kind = "id" =>
            rv[t] = Bool(FALSE) /\ rv'[t] = OkId(frame[t].id) /\ pc'[t] = <<>>
       /\ CallOf(t, "create") /\ At(t, "exists_item") /\ Stepped(t)
            /\ item_files[frame[t].id] # NoFile => rv'[t] = Bool(TRUE)
       /\ CallOf(t, "create") /\ At(t, "exists_lock") /\ Stepped(t) =>
            rv'[t] = Bool(lock_files[frame[t].id] # NoFile)]_vars

\* create has returned an id to one task and a lock_new of another task has
\* since taken it: a lock_new by the caller of create would now be refused
C20_Witness ==
  \E t, u \in Tasks :
    /\ Done(t) /\ CallOf(t, "create") /\ rv[t].kind = "id"
    /\ Done(u) /\ CallOf(u, "lock_new") /\ rv[u].kind = "Success"
    /\ frame[u].id = rv[t].id
    /\ item_files[rv[t].id] # NoFile /\ lock_files[rv[t].id] # NoFile

\* C21: create makes at most 10 tries and, when every try met an id that
\* exists, returns to its caller: with an id, or with the ExhaustedIdSpace
\* error, never by a panic.
C21_CreateExhausted ==
  \A t \in Tasks :
    /\ CallOf(t, "create") => frame[t].tries \in 0..CreateTries
    /\ Done(t) /\ CallOf(t, "create") =>
         rv[t].kind = "id" \/ rv[t] = Err("ExhaustedIdSpace")

\* C22: no operation other than wipe destroys an item: a payload record that
\* exists still exists after every step of create, exists, load, save, lock,
\* lock_new, unlock, force_unlock, verify_lock, all_ids and scan_ids calls of
\* concurrent tasks, and a load of the id that runs then returns the item.
C22_OnlyWipeDestroys ==
  [][\A i \in DOMAIN item_files :
       file_exists(item_files, i) =>
         /\ file_exists(item_files', i)
         /\ \A t \in Tasks :
              At(t, "load") /\ frame[t].id = i /\ Stepped(t) => rv'[t].kind = "item"]_vars

\* the payload is there after unlock and force_unlock calls have removed the
\* lock record of the item and an enumeration has run
C22_Witness ==
  \E t, u \in Tasks :
    /\ Done(t) /\ CallOf(t, "force_unlock") /\ rv[t] = OkUnit
    /\ Done(u) /\ CallOf(u, "scan_ids") /\ rv[u].kind = "page" /\ rv[u].ids # <<>>
    /\ file_exists(item_files, frame[t].id) /\ ~file_exists(lock_files, frame[t].id)

\* C23: wipe with a confirmation other than the exact phrase returns an error
\* and deletes nothing: no step of such a call changes a payload record or a
\* lock record, and its first step ends the call with an error.
C23_WipeUnconfirmed ==
  [][\A t \in Tasks :
       CallOf(t, "wipe") /\ locals[t].confirmation # WipePhrase =>
         /\ item_files' = item_files /\ lock_files' = lock_files
         /\ At(t, "wipe_confirm") /\ Stepped(t) =>
              pc'[t] = <<>> /\ rv'[t].kind = "err"]_vars

\* a wipe with a wrong phrase has returned its error on a store that holds
\* payload records and lock records
C23_Witness ==
  \E t \in Tasks :
    /\ Done(t) /\ CallOf(t, "wipe") /\ locals[t].confirmation = "yes"
    /\ rv[t] = Err("Unconfirmed")
    /\ \E i, j \in ScanIds : file_exists(item_files, i) /\ file_exists(lock_files, j)

\* the ids for which exists(id) answers true: a payload record or a lock record
Present == {i \in DOMAIN item_files : file_exists(item_files, i) \/ file_exists(lock_files, i)}
\* how often x occurs in the sequence
Count(seq, x) == Cardinality({k \in 1..Len(seq) : seq[k] = x})

\* C24: when a wipe with the exact phrase has returned, with no other
\* operation running, every payload record and every lock record is gone:
\* exists(id) is false for every id, whatever the store held before.
C24_WipeRemovesAll ==
  \A t \in Tasks :
    Done(t) /\ CallOf(t, "wipe") /\ locals[t].confirmation = WipePhrase /\ rv[t] = OkUnit
      => Present = {}

\* C25: all_ids returns, each exactly once, precisely the ids for which
\* exists(id) is true (payload record or lock record), every saved id among them.
C25_AllIdsPresent ==
  \A t \in Tasks :
    Done(t) /\ CallOf(t, "all_ids") =>
      /\ rv[t].kind = "ids"
      /\ \A i \in DOMAIN item_files :
           /\ Count(rv[t].ids, i) = (IF i \in Present THEN 1 ELSE 0)
           /\ file_exists(item_files, i) => Count(rv[t].ids, i) = 1

\* C26: scan_ids(None, limit) followed by scan_ids(next, limit) for every
\* continuation returned, until it is absent, yields over all pages exactly
\* the multiset of ids of all_ids, each page holding at most limit ids.
C26_PaginationComplete ==
  \A t \in Tasks :
    CallOf(t, "paginate") =>
      /\ rv[t].kind = "page" => Len(rv[t].ids) <= locals[t].limit.v
      /\ Done(t) =>
           /\ rv[t].kind = "ids"
           /\ \A i \in DOMAIN item_files : Count(rv[t].ids, i) = Count(all_ids_result, i)

\* C27: the continuation of scan_ids is absent exactly when offset plus page
\* length equals the number of ids, and is otherwise that sum as text.
C27_ContinuationAtEnd ==
  \A t \in Tasks :
    Done(t) /\ CallOf(t, "scan_ids") /\ rv[t].kind = "page" =>
      LET total == Len(all_ids_result)
          offset == IF locals[t].start.some
                      THEN Min(parse_usize(locals[t].start.v).v, total) ELSE 0
          reached == offset + Len(rv[t].ids)
      IN /\ ~rv[t].next.some <=> reached = total
         /\ rv[t].next.some => rv[t].next = Some(format_usize(reached))

\* the greatest of a non-empty set of numbers
Max(S) == CHOOSE m \in S : \A x \in S : x <= m

\* C28: the highest-seen-id cell is a monotone maximum under concurrency: in
\* every interleaving its value never decreases, and whenever no operation is
\* in flight it is the maximum of the ids the updating operations observed.
C28_MonotoneMax ==
  [][/\ highest_seen_id.some =>
          highest_seen_id'.some /\ highest_seen_id'.v >= highest_seen_id.v
     /\ (\A t \in Tasks : pc'[t] = <<>>) /\ observed' # {} =>
          highest_seen_id' = Some(Max(observed'))]_vars

\* C29: for each id variant, parsing the text form of a valid id gives back
\* an equal id: from_string(id.to_string()) == id, whether the id came from
\* generate_new, from a successful from_string or from the constructor.
C29_IdRoundTrip ==
  \A t \in Tasks :
    Done(t) /\ CallOf(t, "round_trip") => rv[t] = OkId(locals[t].id.v)

\* C30: SequentialId::generate_new(Some(n)) is n + 1, greater than n, for
\* every n of the u64 range, and generate_new(None) is 1.
C30_SequentialNext ==
  \A t \in Tasks :
    Done(t) /\ CallOf(t, "generate_new") =>
      IF locals[t].id.some
        THEN /\ rv[t].kind = "id"
             /\ rv[t].id.n > locals[t].id.v.n
             /\ rv[t].id.n = locals[t].id.v.n + 1
        ELSE rv[t] = OkId(SequentialId(1))

C34_AllIdsSkipsUnparseable ==
  \A t \in Tasks :
    Done(t) /\ CallOf(t, "all_ids") => rv[t] = OkIds(all_ids_result)

\* C35: metadata_highest_seen_id reports only ids that were observed: it is
\* None as long as the store holds no item, whatever exists, all_ids and
\* scan_ids calls are made, and when it is Some(x) then x is the id of an
\* item of the store.
C35_OnlyObservedIds ==
  /\ Present = {} => highest_seen_id = None
  /\ highest_seen_id.some => highest_seen_id.v \in {id_value(i) : i \in Present}

\* C36: whatever force_unlock and lock calls of other tasks run between the
\* steps of unlock(id, L), a step of unlock that removes the lock record of
\* id removes a record that equals L.
C36_UnlockRemovesOwnLock ==
  [][\A t \in Tasks :
       ( /\ CallOf(t, "unlock") /\ At(t, "unlock_remove") /\ Stepped(t)
         /\ file_exists(lock_files, frame[t].id)
         /\ ~file_exists(lock_files', frame[t].id) )
       => lock_matches(lock_files[frame[t].id], frame[t].lock)]_vars

\* C37: distinct ids have distinct payload files and distinct lock files, so
\* a step of a lock, lock_new, save, unlock or force_unlock call on one id
\* leaves the payload record and the lock record of every other id as they
\* were.
C37_PerKeyIsolation ==
  [][\A t \in Tasks : \A other \in PathIds :
       (~Idle(t) /\ Stepped(t) /\ locals[t].id # Some(other))
       => /\ lock_files'[lock_stem(other)] = lock_files[lock_stem(other)]
          /\ item_files'[path_stem(other)] = item_files[path_stem(other)]]_vars

\* C38: the semaphore of a StorageDisk never deadlocks: when no call is
\* running every permit is back, whatever way the lock, lock_new and wipe
\* calls ended, and under fair scheduling every lock and lock_new call that
\* waits for the semaphore returns.
C38_GateNeverDeadlocks ==
  /\ []((\A t \in Tasks : Idle(t) \/ Done(t)) => permits = SemaphorePermits)
  /\ \A t \in Tasks :
       (At(t, "lock_acquire") \/ At(t, "lock_new_acquire")) ~> Done(t)

\* a lock call was refused and gave the permit back while another task waits for it
C38_Witness ==
  \E t, u \in Tasks :
    /\ Done(t) /\ CallOf(t, "lock") /\ rv[t].kind = "AlreadyLocked"
    /\ At(u, "lock_new_acquire") /\ permits = SemaphorePermits

\* C39: a caller that calls scan_ids with no start and then with each
\* continuation it is handed comes to an absent continuation after finitely
\* many calls, for every content of the store and every limit, on a store
\* that nothing modifies meanwhile.
C39_PaginationTerminates ==
  \A t \in Tasks : CallOf(t, "follow") ~> Done(t)

\* C40: a sequence of lock, save, unlock and force_unlock calls applied to an
\* empty StorageDisk and to an empty StorageDynamoDb has the same kind of
\* outcome at each call in both, and after each call exists(id) and
\* verify_lock(id, L) answer the same in both.
C40_BackendsEquivalent ==
  (\A t \in Tasks : Idle(t) \/ Done(t)) =>
    /\ rv[DiskTask].kind = rv[DynamoDbTask].kind
    /\ \A id \in Ids :
         /\ (file_exists(item_files, id) \/ file_exists(lock_files, id)) = table[id].item
         /\ \A l \in KeepLocks : verify_lock_result(id, l) = dyn_verify_lock_result(id, l)

====
